---------------------------- MODULE Spec2Model ----------------------------
(***************************************************************************)
(* A model of tinyhttp's core: the reference counted shared_array_buffer   *)
(* (include/memory.h), the buffer_stream byte protocol (include/memory.h), *)
(* the event types (include/log.h, include/timer.h), the event_channel     *)
(* and the packet framing (include/evchannel.h, include/io.h).             *)
(*                                                                         *)
(* One module holds several state machines over one variable tuple; each   *)
(* specification initialises all variables and moves only its own part.    *)
(*   SpecThreads   handles of one shared_array_buffer, used by threads     *)
(*   SpecReleased  the same, plus copies from handles of a released buffer *)
(*   SpecChan      one event_channel: subscribe / unsubscribe / post       *)
(*   SpecWire      send_packet and recv_packet over one byte stream        *)
(*   SpecLog       event_log encode / decode                               *)
(*   SpecStream    one buffer_stream: get / get_as / append / cursor moves *)
(*   SpecWriteFd   writefd as send_packet calls it, with a fair write()    *)
(*   SpecHeap      heap_allocator and the buffers built on it              *)
(*   SpecAligned   aligned_heap_allocator                                  *)
(*   SpecReference buffer_stream::reference with any offset and size       *)
(*   SpecDrain     recv_packet on a socket whose recv can keep failing     *)
(*   SpecLock      threads calling streams and handles of one buffer       *)
(*   SpecLockFair  the same, every thread scheduled fairly                 *)
(*   SpecAppend    threads appending through auto-expanding streams        *)
(***************************************************************************)
EXTENDS Integers, Sequences, FiniteSets, TLC

VARIABLES
    \* ---- shared_array_buffer<heap_allocator> : one buffer, many handles
    handles,          \* handle slot -> [st, meta, owner, fromReleased]
    reference_count,  \* meta::reference_count
    mutex,            \* meta::mutex : 0 unlocked, t held by thread t
    ptrs_,            \* heap_allocator::ptrs_ of the buffer's allocator
    freeLog,          \* blocks passed to free(), in order
    allocatorDeleted, \* delete allocator_ptr has run
    releases,         \* calls of allocator->release(): <<[thread, holders]>>
    zeroDecs,         \* threads whose decrement stored 0, in order
    decs,             \* handle slot -> number of decrements its destructor did
    pc,               \* thread -> position in the running constructor/destructor
    loc,              \* thread -> [src, dst, tmp, zeroSrc] (locals of that call)
    uaf,              \* a field of the metadata block was accessed after its free
    crashed,          \* the process dereferenced a null pointer / double free
    \* ---- event_channel
    evhandlers_,      \* evid -> sequence of [callback_id, etype]
    cbid_count_,      \* event_channel::cbid_count_
    issued,           \* callback ids returned by subscribe, in order
    chanOp,           \* the last channel operation and its outcome
    chanCrashed,      \* undefined behaviour of vector::erase(end()) ended the run
    \* ---- send_packet / recv_packet
    wire,             \* what send_packet is doing and the bytes in flight; hard:
                      \* write() has reported an error that is not transient
    rx,               \* the receiving side: drained bytes and recv_packet's
                      \* result; zero: a recv() of the drain has returned 0
    \* ---- event_log round trip
    logrt,            \* the values, the encoded buffer and the decoded event
    \* ---- buffer_stream
    strm,             \* the stream's fields and its last call with the outcome
    \* ---- heap_allocator, unique_array_buffer<heap_allocator>
    heap,             \* the registry, the buffer's fields, the system heap
    \* ---- aligned_heap_allocator
    aheap,            \* the registry, the system heap
    \* ---- one shared_array_buffer used through streams by threads
    sbuf              \* its fields, its locks, each thread's call in progress

bufVars  == <<handles, reference_count, mutex, ptrs_, freeLog, allocatorDeleted,
              releases, zeroDecs, decs, pc, loc, uaf, crashed>>
chanVars == <<evhandlers_, cbid_count_, issued, chanOp, chanCrashed>>
wireVars == <<wire, rx>>
logVars  == <<logrt>>
memVars  == <<strm, heap, aheap, sbuf>>
vars     == <<bufVars, chanVars, wireVars, logVars, memVars>>

(***************************************************************************)
(* Bounds of the model.                                                    *)
(***************************************************************************)
NThreads   == 2     \* threads using the handles of the buffer
MaxHandles == 4     \* handle objects ever constructed for the buffer
MaxGarbage == 2     \* largest value a reused freed block shows as a count

Threads   == 1..NThreads
HandleIds == 1..MaxHandles

(***************************************************************************)
(* shared_array_buffer<Allocator>                                          *)
(***************************************************************************)
NULL        == 0    \* nullptr
MetaAddr    == 1    \* the address allocate(sizeof(meta)) returned
OffsetOfPtr == 0    \* offsetof(meta, ptr): ptr is the first member

\* &meta_->ptr, the expression the destructor compares with nullptr
MetaPtrFieldAddr(m) == m + OffsetOfPtr

\* the registry of the allocator after the two allocate() calls of the
\* constructor: the metadata block first, the data block second
ctor_ptrs == <<"meta", "data">>

\* ++meta_->reference_count of the constructor, on the zeroed block
ctor_reference_count == 0 + 1

metaFreed == \E i \in 1..Len(freeLog) : freeLog[i] = "meta"

\* handles that are alive and hold the metadata pointer
Holders == {h \in HandleIds : handles[h].st = "live" /\ handles[h].meta # NULL}

FreeSlots == {h \in HandleIds : handles[h].st = "unborn"}

Unborn == [st |-> "unborn", meta |-> NULL, owner |-> 0, fromReleased |-> FALSE]
NoLoc  == [src |-> 0, dst |-> 0, tmp |-> 0, zeroSrc |-> FALSE]

\* a lock() that excludes nobody: the mutex stays free
mutex_lock_absent(t) == 0

\* std::mutex::lock() by thread t, once the mutex is free
mutex_lock(t) == t

\* std::mutex::unlock()
mutex_unlock == 0

InitBuf ==
    /\ handles = [h \in HandleIds |->
                    IF h = 1 THEN [st |-> "live", meta |-> MetaAddr, owner |-> 1,
                                   fromReleased |-> FALSE]
                    ELSE Unborn]
    /\ reference_count = ctor_reference_count
    /\ mutex = mutex_unlock
    /\ ptrs_ = ctor_ptrs
    /\ freeLog = <<>>
    /\ allocatorDeleted = FALSE
    /\ releases = <<>>
    /\ zeroDecs = <<>>
    /\ decs = [h \in HandleIds |-> 0]
    /\ pc = [t \in Threads |-> "idle"]
    /\ loc = [t \in Threads |-> NoLoc]
    /\ uaf = FALSE
    /\ crashed = FALSE

\* an access to a field of the metadata block: recorded when the block is freed
Touch == uaf \/ metaFreed

\* a step of the buffer machine leaves the other machines alone
BufOnly == UNCHANGED <<chanVars, wireVars, logVars, memVars>>


LowestFree == CHOOSE h \in FreeSlots : \A g \in FreeSlots : h <= g

\* a move constructor that forgets to null the source
move_source_kept(m) == m

\* buffer.meta_ = nullptr of the move constructor: what the source holds after
move_source_meta(m) == NULL

\* the meta_ of a handle built from a source holding m (copy and move alike)
init_meta(m) == m

(* shared_array_buffer(const shared_array_buffer&), entered by thread t with  *)
(* its own live handle h as the source; the new object takes the lowest slot. *)
CopyBegin(t, h) ==
    /\ BufOnly /\ ~crashed /\ pc[t] = "idle"
    /\ handles[h].st = "live" /\ handles[h].owner = t
    /\ FreeSlots # {}
    /\ handles' = [handles EXCEPT ![LowestFree].st = "pending"]
    /\ loc' = [loc EXCEPT ![t] = [src |-> h, dst |-> LowestFree, tmp |-> 0,
                                  zeroSrc |-> FALSE]]
    /\ pc' = [pc EXCEPT ![t] = "c_lock"]
    /\ UNCHANGED <<reference_count, mutex, ptrs_, freeLog, allocatorDeleted,
                   releases, zeroDecs, decs, uaf, crashed>>

(* The same constructor entered with a source object whose buffer has had its *)
(* count reach zero: a handle inside or after its destructor that still holds *)
(* the metadata pointer.                                                      *)
CopyBeginReleased(t, h) ==
    /\ BufOnly /\ ~crashed /\ pc[t] = "idle"
    /\ handles[h].st \in {"dying", "dead"} /\ handles[h].meta # NULL
    /\ zeroDecs # <<>>
    /\ FreeSlots # {}
    /\ handles' = [handles EXCEPT ![LowestFree].st = "pending"]
    /\ loc' = [loc EXCEPT ![t] = [src |-> h, dst |-> LowestFree, tmp |-> 0,
                                  zeroSrc |-> TRUE]]
    /\ pc' = [pc EXCEPT ![t] = "c_lock"]
    /\ UNCHANGED <<reference_count, mutex, ptrs_, freeLog, allocatorDeleted,
                   releases, zeroDecs, decs, uaf, crashed>>

\* meta_->mutex.lock(); a null meta_ is dereferenced here
CopyLock(t) ==
    /\ BufOnly /\ ~crashed /\ pc[t] = "c_lock"
    /\ IF handles[loc[t].src].meta = NULL
       THEN /\ crashed' = TRUE
            /\ UNCHANGED <<mutex, uaf, pc>>
       ELSE /\ mutex = 0
            /\ mutex' = mutex_lock(t)
            /\ uaf' = Touch
            /\ pc' = [pc EXCEPT ![t] = "c_test"]
            /\ UNCHANGED crashed
    /\ UNCHANGED <<handles, reference_count, ptrs_, freeLog, allocatorDeleted,
                   releases, zeroDecs, decs, loc>>

\* if (meta_->reference_count == 0) { unlock; throw memory_exception }
\* the object under construction never comes to exist, no destructor runs
CopyTest(t) ==
    /\ BufOnly /\ ~crashed /\ pc[t] = "c_test"
    /\ uaf' = Touch
    /\ IF reference_count = 0
       THEN /\ mutex' = mutex_unlock
            /\ handles' = [handles EXCEPT ![loc[t].dst] = Unborn]
            /\ pc' = [pc EXCEPT ![t] = "idle"]
            /\ loc' = [loc EXCEPT ![t] = NoLoc]
       ELSE /\ pc' = [pc EXCEPT ![t] = "c_store"]
            /\ loc' = [loc EXCEPT ![t].tmp = reference_count]
            /\ UNCHANGED <<mutex, handles>>
    /\ UNCHANGED <<reference_count, ptrs_, freeLog, allocatorDeleted, releases,
                   zeroDecs, decs, crashed>>

\* ++meta_->reference_count
CopyStore(t) ==
    /\ BufOnly /\ ~crashed /\ pc[t] = "c_store"
    /\ reference_count' = loc[t].tmp + 1
    /\ uaf' = Touch
    /\ pc' = [pc EXCEPT ![t] = "c_unlock"]
    /\ UNCHANGED <<handles, mutex, ptrs_, freeLog, allocatorDeleted, releases,
                   zeroDecs, decs, loc, crashed>>

\* meta_->mutex.unlock(); the new handle exists and is given to some thread
CopyUnlock(t) ==
    /\ BufOnly /\ ~crashed /\ pc[t] = "c_unlock"
    /\ mutex' = mutex_unlock
    /\ uaf' = Touch
    /\ \E o \in Threads :
         handles' = [handles EXCEPT ![loc[t].dst] =
                       [st |-> "live", meta |-> init_meta(handles[loc[t].src].meta),
                        owner |-> o, fromReleased |-> loc[t].zeroSrc]]
    /\ pc' = [pc EXCEPT ![t] = "idle"]
    /\ loc' = [loc EXCEPT ![t] = NoLoc]
    /\ UNCHANGED <<reference_count, ptrs_, freeLog, allocatorDeleted, releases,
                   zeroDecs, decs, crashed>>

\* shared_array_buffer(shared_array_buffer&&): no lock, no count
Move(t, h) ==
    /\ BufOnly /\ ~crashed /\ pc[t] = "idle"
    /\ handles[h].st = "live" /\ handles[h].owner = t
    /\ FreeSlots # {}
    /\ \E o \in Threads :
         handles' = [handles EXCEPT
                       ![LowestFree] = [st |-> "live",
                                        meta |-> init_meta(handles[h].meta),
                                        owner |-> o,
                                        fromReleased |-> handles[h].fromReleased],
                       ![h].meta = move_source_meta(handles[h].meta)]
    /\ UNCHANGED <<reference_count, mutex, ptrs_, freeLog, allocatorDeleted,
                   releases, zeroDecs, decs, pc, loc, uaf, crashed>>

(* ~shared_array_buffer(), entered by thread t for its own live handle h.      *)
DestroyBegin(t, h) ==
    /\ BufOnly /\ ~crashed /\ pc[t] = "idle"
    /\ handles[h].st = "live" /\ handles[h].owner = t
    /\ handles' = [handles EXCEPT ![h].st = "dying"]
    /\ loc' = [loc EXCEPT ![t] = [src |-> h, dst |-> 0, tmp |-> 0,
                                  zeroSrc |-> FALSE]]
    /\ pc' = [pc EXCEPT ![t] = "d_check"]
    /\ UNCHANGED <<reference_count, mutex, ptrs_, freeLog, allocatorDeleted,
                   releases, zeroDecs, decs, uaf, crashed>>

\* if (&meta_->ptr != nullptr) : false exactly for a moved-from handle
DestroyCheck(t) ==
    /\ BufOnly /\ ~crashed /\ pc[t] = "d_check"
    /\ IF MetaPtrFieldAddr(handles[loc[t].src].meta) # NULL
       THEN /\ pc' = [pc EXCEPT ![t] = "d_lock"]
            /\ UNCHANGED <<handles, loc>>
       ELSE /\ handles' = [handles EXCEPT ![loc[t].src].st = "dead"]
            /\ pc' = [pc EXCEPT ![t] = "idle"]
            /\ loc' = [loc EXCEPT ![t] = NoLoc]
    /\ UNCHANGED <<reference_count, mutex, ptrs_, freeLog, allocatorDeleted,
                   releases, zeroDecs, decs, uaf, crashed>>

\* meta_->mutex.lock()
DestroyLock(t) ==
    /\ BufOnly /\ ~crashed /\ pc[t] = "d_lock"
    /\ mutex = 0
    /\ mutex' = mutex_lock(t)
    /\ uaf' = Touch
    /\ pc' = [pc EXCEPT ![t] = "d_load"]
    /\ UNCHANGED <<handles, reference_count, ptrs_, freeLog, allocatorDeleted,
                   releases, zeroDecs, decs, loc, crashed>>

\* --meta_->reference_count : the load
DestroyLoad(t) ==
    /\ BufOnly /\ ~crashed /\ pc[t] = "d_load"
    /\ loc' = [loc EXCEPT ![t].tmp = reference_count]
    /\ uaf' = Touch
    /\ pc' = [pc EXCEPT ![t] = "d_store"]
    /\ UNCHANGED <<handles, reference_count, mutex, ptrs_, freeLog,
                   allocatorDeleted, releases, zeroDecs, decs, crashed>>

\* --meta_->reference_count : the store
DestroyStore(t) ==
    /\ BufOnly /\ ~crashed /\ pc[t] = "d_store"
    /\ reference_count' = loc[t].tmp - 1
    /\ decs' = [decs EXCEPT ![loc[t].src] = @ + 1]
    /\ zeroDecs' = IF loc[t].tmp - 1 = 0 THEN Append(zeroDecs, t) ELSE zeroDecs
    /\ uaf' = Touch
    /\ pc' = [pc EXCEPT ![t] = "d_test"]
    /\ UNCHANGED <<handles, mutex, ptrs_, freeLog, allocatorDeleted, releases,
                   loc, crashed>>

\* if (meta_->reference_count == 0) { meta_->mutex.unlock(); ...
DestroyTest(t) ==
    /\ BufOnly /\ ~crashed /\ pc[t] = "d_test"
    /\ uaf' = Touch
    /\ IF reference_count = 0
       THEN /\ mutex' = mutex_unlock
            /\ pc' = [pc EXCEPT ![t] = "d_release"]
       ELSE /\ pc' = [pc EXCEPT ![t] = "d_unlock"]
            /\ UNCHANGED mutex
    /\ UNCHANGED <<handles, reference_count, ptrs_, freeLog, allocatorDeleted,
                   releases, zeroDecs, decs, loc, crashed>>

\* heap_allocator::release(): free() of every recorded block, in the order of
\* the registry, then ptrs_.clear()
heap_release_frees(ptrs) == ptrs

(* auto allocator_ptr = meta_->allocator; meta_->allocator->release();        *)
(* delete allocator_ptr;  (~heap_allocator finds ptrs_ empty and frees        *)
(* nothing more). A second run works on a deleted allocator.                  *)
DestroyRelease(t) ==
    /\ BufOnly /\ ~crashed /\ pc[t] = "d_release"
    /\ uaf' = Touch
    /\ releases' = Append(releases, [thread |-> t, holders |-> Cardinality(Holders)])
    /\ IF allocatorDeleted
       THEN /\ crashed' = TRUE
            /\ UNCHANGED <<freeLog, ptrs_, allocatorDeleted, pc>>
       ELSE /\ freeLog' = freeLog \o heap_release_frees(ptrs_)
            /\ ptrs_' = <<>>
            /\ allocatorDeleted' = TRUE
            /\ pc' = [pc EXCEPT ![t] = "d_unlock"]
            /\ UNCHANGED crashed
    /\ UNCHANGED <<handles, reference_count, mutex, zeroDecs, decs, loc>>

\* the closing meta_->mutex.unlock() of the destructor (after the release too)
DestroyUnlock(t) ==
    /\ BufOnly /\ ~crashed /\ pc[t] = "d_unlock"
    /\ mutex' = mutex_unlock
    /\ uaf' = Touch
    /\ handles' = [handles EXCEPT ![loc[t].src].st = "dead"]
    /\ pc' = [pc EXCEPT ![t] = "idle"]
    /\ loc' = [loc EXCEPT ![t] = NoLoc]
    /\ UNCHANGED <<reference_count, ptrs_, freeLog, allocatorDeleted, releases,
                   zeroDecs, decs, crashed>>

(* The freed metadata block is handed out again by malloc and written by its  *)
(* new owner: the bytes that held the stale count 0 take another value.       *)
HeapReuse ==
    /\ BufOnly /\ ~crashed /\ metaFreed
    /\ reference_count = 0
    /\ \E c \in 1..MaxGarbage : reference_count' = c
    /\ UNCHANGED <<handles, mutex, ptrs_, freeLog, allocatorDeleted, releases,
                   zeroDecs, decs, pc, loc, uaf, crashed>>

(* Values of the variables of the machines a specification does not run.     *)
IdleChan ==
    /\ evhandlers_ = <<>> /\ cbid_count_ = 0 /\ issued = <<>>
    /\ chanOp = [op |-> "none"] /\ chanCrashed = FALSE
IdleWire == wire = [st |-> "off"] /\ rx = [st |-> "off"]
IdleLog  == logrt = [st |-> "off"]
IdleMem  == /\ strm = [st |-> "off"] /\ heap = [st |-> "off"]
            /\ aheap = [st |-> "off"] /\ sbuf = [st |-> "off"]

InitThreads == InitBuf /\ IdleChan /\ IdleWire /\ IdleLog /\ IdleMem

NextThreads ==
    \/ \E t \in Threads, h \in HandleIds : CopyBegin(t, h)
    \/ \E t \in Threads : CopyLock(t)
    \/ \E t \in Threads : CopyTest(t)
    \/ \E t \in Threads : CopyStore(t)
    \/ \E t \in Threads : CopyUnlock(t)
    \/ \E t \in Threads, h \in HandleIds : Move(t, h)
    \/ \E t \in Threads, h \in HandleIds : DestroyBegin(t, h)
    \/ \E t \in Threads : DestroyCheck(t)
    \/ \E t \in Threads : DestroyLock(t)
    \/ \E t \in Threads : DestroyLoad(t)
    \/ \E t \in Threads : DestroyStore(t)
    \/ \E t \in Threads : DestroyTest(t)
    \/ \E t \in Threads : DestroyRelease(t)
    \/ \E t \in Threads : DestroyUnlock(t)

SpecThreads == InitThreads /\ [][NextThreads]_vars

NextReleased ==
    \/ NextThreads
    \/ \E t \in Threads, h \in HandleIds : CopyBeginReleased(t, h)
    \/ HeapReuse

SpecReleased == InitThreads /\ [][NextReleased]_vars

(***************************************************************************)
(* Bytes.  A buffer is the sequence of its bytes (offset o is index o + 1); *)
(* a byte malloc/realloc handed out and nobody wrote is Uninit.  A typed    *)
(* value is held by its object representation, little endian (x86-64).      *)
(***************************************************************************)
Uninit == -1

SizeofSizeT    == 8     \* sizeof(size_t), sizeof(char*)
SizeofInt      == 4     \* sizeof(int), sizeof(log_level)
SizeofInt64    == 8     \* sizeof(int64_t), sizeof(time_t)

RECURSIVE ObjRep(_, _)
\* the w bytes of the non-negative integer n
ObjRep(n, w) == IF w = 0 THEN <<>> ELSE <<n % 256>> \o ObjRep(n \div 256, w - 1)

Fill(n, b) == [i \in 1..n |-> b]

\* a size_t read from 8 bytes: below 2^24, or within 2^24 of 2^64, or neither
Small(w)    == \A i \in 4..SizeofSizeT : w[i] = 0
NegSmall(w) == \A i \in 4..SizeofSizeT : w[i] = 255
Val3(w)     == w[1] + 256 * w[2] + 65536 * w[3]

\* A size_t within 2^24 of 0 on either side is held as an integer n, a
\* negative n standing for 2^64 + n: + and - are then those of size_t, and
\* UGt is its >
UGt(a, b) == IF (a < 0) = (b < 0) THEN a > b ELSE a < 0
UGe(a, b) == ~UGt(b, a)

\* the n bytes at buffer_.pointer() + offset; what lies outside the buffer
\* was never written by the program
Peek(bytes, offset, n) ==
    [i \in 1..n |-> IF offset + i \in 1..Len(bytes) THEN bytes[offset + i]
                    ELSE Uninit]

\* offset + size in size_t arithmetic (mod 2^64), for an offset below 2^24:
\* the sum when it is small, big |-> TRUE when it exceeds every capacity
WordSum(offset, w) ==
    IF Small(w) THEN [big |-> FALSE, val |-> offset + Val3(w)]
    ELSE IF NegSmall(w) /\ offset >= 16777216 - Val3(w)
         THEN [big |-> FALSE, val |-> offset - (16777216 - Val3(w))]
         ELSE [big |-> TRUE, val |-> 0]

(***************************************************************************)
(* buffer_stream<Buffer>: s = [bytes, pos, eof, ax], the bound buffer's     *)
(* bytes (its capacity is their number), position_, eof_ and auto_expand.   *)
(***************************************************************************)
NewStream(bytes) == [bytes |-> bytes, pos |-> 0, eof |-> FALSE, ax |-> FALSE]

\* set_auto_expand(enable)
set_auto_expand(s, enable) == [s EXCEPT !.ax = enable]

\* Buffer::expand(new_capacity): realloc keeps the bytes up to the smaller size
buf_expand(bytes, n) ==
    IF n <= Len(bytes) THEN SubSeq(bytes, 1, n)
    ELSE bytes \o Fill(n - Len(bytes), Uninit)

\* reference(offset, size) without its bounds check
reference_unchecked(bytes, offset, size) == TRUE

\* reference(offset, size): TRUE when a pointer, FALSE when nullptr is returned
reference(bytes, offset, size) == ~UGt(offset + size, Len(bytes))

\* reference(offset, size) with a size read from the buffer as a size_t
reference_w(bytes, offset, w) ==
    LET sum == WordSum(offset, w) IN ~(sum.big \/ UGt(sum.val, Len(bytes)))

\* write(src, offset, size)
stream_write(bytes, src, offset) ==
    IF UGt(offset + Len(src), Len(bytes))
    THEN [ok |-> FALSE, bytes |-> bytes]
    ELSE [ok |-> TRUE,
          bytes |-> [i \in 1..Len(bytes) |->
                       IF i > offset /\ i <= offset + Len(src)
                       THEN src[i - offset] ELSE bytes[i]]]

\* append<T>(t) with rep the object representation of t, and
\* append(src, size) with rep the size bytes at src: the two bodies are alike
append_T(s, rep) ==
    LET step == Len(rep)
        curr == s.pos + step
        b1   == IF s.ax /\ curr >= Len(s.bytes) THEN buf_expand(s.bytes, curr)
                ELSE s.bytes
        eof1 == IF curr = Len(b1) THEN TRUE ELSE s.eof
        w    == stream_write(b1, rep, curr - step)
    IN  [ok |-> w.ok,
         s  |-> [bytes |-> w.bytes, pos |-> curr,
                 eof |-> IF w.ok THEN eof1 ELSE TRUE, ax |-> s.ax]]

\* append(const std::string_view&) writing length, the size of the whole
\* field, where original_length belongs
append_sv_whole_length(s, str) ==
    LET original_length == Len(str)
        length == original_length + SizeofSizeT
        curr == s.pos + length
        b1   == IF s.ax /\ curr >= Len(s.bytes) THEN buf_expand(s.bytes, curr)
                ELSE s.bytes
        w1   == stream_write(b1, ObjRep(length, SizeofSizeT), curr - length)
        w2   == stream_write(w1.bytes, str, curr - original_length)
    IN  [ok |-> w1.ok /\ w2.ok,
         s  |-> [bytes |-> w2.bytes, pos |-> curr,
                 eof |-> (curr = Len(b1)) \/ s.eof \/ ~w1.ok \/ ~w2.ok, ax |-> s.ax]]

\* append(const std::string_view&): the length as a size_t, then the bytes
append_sv(s, str) ==
    LET original_length == Len(str)
        length == original_length + SizeofSizeT
        curr == s.pos + length
        b1   == IF s.ax /\ curr >= Len(s.bytes) THEN buf_expand(s.bytes, curr)
                ELSE s.bytes
        eof1 == IF curr = Len(b1) THEN TRUE ELSE s.eof
        w1   == stream_write(b1, ObjRep(original_length, SizeofSizeT), curr - length)
        w2   == stream_write(w1.bytes, str, curr - original_length)
    IN  IF ~w1.ok
        THEN [ok |-> FALSE,
              s |-> [bytes |-> w1.bytes, pos |-> curr, eof |-> TRUE, ax |-> s.ax]]
        ELSE [ok |-> w2.ok,
              s |-> [bytes |-> w2.bytes, pos |-> curr,
                     eof |-> IF w2.ok THEN eof1 ELSE TRUE, ax |-> s.ax]]

\* get_as<T>() for a T of step bytes: ok |-> FALSE when memory_exception is
\* thrown, else rep, the bytes the returned T& refers to
get_as_T(s, step) ==
    LET curr == s.pos + step
        eof1 == IF curr = Len(s.bytes) THEN TRUE ELSE s.eof
        ok   == reference(s.bytes, curr - step, step)
    IN  [ok  |-> ok,
         rep |-> IF ok THEN Peek(s.bytes, curr - step, step) ELSE <<>>,
         s   |-> [s EXCEPT !.pos = curr, !.eof = IF ok THEN eof1 ELSE TRUE]]

\* get_as(): the length prefixed view.  view is the string_view returned ({}
\* when a reference() gave nullptr); wild says the view reaches outside the
\* buffer (a length that wrapped the bounds check)
get_as_sv(s) ==
    IF ~reference(s.bytes, s.pos, SizeofSizeT)
    THEN [view |-> <<>>, wild |-> FALSE, s |-> [s EXCEPT !.eof = TRUE]]
    ELSE LET w == Peek(s.bytes, s.pos, SizeofSizeT)
             sum == WordSum(s.pos + SizeofSizeT, w)
         IN  IF ~reference_w(s.bytes, s.pos + SizeofSizeT, w)
             THEN [view |-> <<>>, wild |-> FALSE, s |-> [s EXCEPT !.eof = TRUE]]
             ELSE IF Small(w)
             THEN [view |-> Peek(s.bytes, s.pos + SizeofSizeT, Val3(w)),
                   wild |-> FALSE,
                   s |-> [s EXCEPT !.pos = sum.val]]
             ELSE [view |-> <<>>, wild |-> TRUE,
                   s |-> [s EXCEPT !.pos = sum.val]]

(***************************************************************************)
(* The event types: event_log (log.h) and tick_event (timer.h).            *)
(***************************************************************************)
MaxLen == 2      \* longest source / message string of the model

Chars      == {97, 98}
LogLevels  == 0..6                    \* log_level::UNKNOWN .. log_level::FATAL
Timestamps == {0, 1700000000}
TickValues == {0, 258}

Strings == UNION {[1..n -> Chars] : n \in 0..MaxLen}

\* E::unique_event_id
unique_event_id(E) == IF E = "event_log" THEN 1 ELSE 1

\* general_shared_array_buffer_t(capacity, new heap_allocator()): malloc'ed,
\* not initialised
NewSharedBuffer(capacity) == Fill(capacity, Uninit)

\* the capacity event_log's constructor asks for
event_log_capacity(from, msg) ==
    SizeofInt + SizeofInt64 + Len(from) + Len(msg) + 1

\* event_log(lv, tm, from, msg): ok |-> FALSE when it throws; bytes is buffer_
EventLogEncode(lv, tm, from, msg) ==
    LET s0 == set_auto_expand(
                NewStream(NewSharedBuffer(event_log_capacity(from, msg))), TRUE)
        a1 == append_T(s0, ObjRep(lv, SizeofInt))
        a2 == append_T(a1.s, ObjRep(tm, SizeofInt64))
        a3 == append_sv(a2.s, from)
        a4 == append_sv(a3.s, msg)
    IN  IF ~a1.ok THEN [ok |-> FALSE, bytes |-> a1.s.bytes]
        ELSE IF ~a2.ok THEN [ok |-> FALSE, bytes |-> a2.s.bytes]
        ELSE IF ~a3.ok THEN [ok |-> FALSE, bytes |-> a3.s.bytes]
        ELSE [ok |-> a4.ok, bytes |-> a4.s.bytes]

\* is the view returned by get_as() one the decoding constructor accepts
view_accepted(v) == v # <<>>

NoEvent == [ok |-> FALSE, lv |-> <<>>, tm |-> <<>>, from |-> <<>>, msg |-> <<>>,
            ticks |-> <<>>]

\* event_log(general_shared_array_buffer_t buffer): ok |-> FALSE when it
\* throws memory_exception; lv and tm are the bytes lv_ and tm_ are copied from
EventLogDecode(bytes) ==
    LET s0 == NewStream(bytes)
        g1 == get_as_T(s0, SizeofInt)
        g2 == get_as_T(g1.s, SizeofInt64)
        g3 == get_as_sv(g2.s)
        g4 == get_as_sv(g3.s)
    IN  IF ~g1.ok \/ ~g2.ok THEN NoEvent
        ELSE IF ~view_accepted(g3.view) THEN NoEvent
        ELSE IF ~view_accepted(g4.view) THEN NoEvent
        ELSE [ok |-> TRUE, lv |-> g1.rep, tm |-> g2.rep, from |-> g3.view,
              msg |-> g4.view, ticks |-> <<>>]

\* tick_event(int64_t ticks): buffer_(8, ...), stream.append(ticks)
TickEncode(ticks) ==
    LET a == append_T(NewStream(NewSharedBuffer(SizeofInt64)),
                      ObjRep(ticks, SizeofInt64))
    IN  [ok |-> TRUE, bytes |-> a.s.bytes]

\* tick_event(general_shared_array_buffer_t buffer)
TickDecode(bytes) ==
    LET g == get_as_T(NewStream(bytes), SizeofInt64)
    IN  IF ~g.ok THEN NoEvent
        ELSE [NoEvent EXCEPT !.ok = TRUE, !.ticks = g.rep]

\* content() const {return buffer_;} : a handle to the same bytes
content(ev) == ev.bytes

(***************************************************************************)
(* event_log round trip: the values, the event built from them, the event  *)
(* built from the first one's content().                                   *)
(***************************************************************************)
IdleBuf ==
    /\ handles = [h \in HandleIds |-> Unborn]
    /\ reference_count = 0 /\ mutex = 0 /\ ptrs_ = <<>> /\ freeLog = <<>>
    /\ allocatorDeleted = FALSE /\ releases = <<>> /\ zeroDecs = <<>>
    /\ decs = [h \in HandleIds |-> 0]
    /\ pc = [t \in Threads |-> "idle"] /\ loc = [t \in Threads |-> NoLoc]
    /\ uaf = FALSE /\ crashed = FALSE

InitLog ==
    /\ IdleBuf /\ IdleChan /\ IdleWire /\ IdleMem
    /\ \E lv \in LogLevels, tm \in Timestamps, from \in Strings, msg \in Strings :
         logrt = [st |-> "values", lv |-> lv, tm |-> tm, from |-> from,
                  msg |-> msg, first |-> [ok |-> FALSE, bytes |-> <<>>],
                  second |-> NoEvent]

\* event_log first(lv, tm, from, msg);
LogConstruct ==
    /\ logrt.st = "values"
    /\ LET e == EventLogEncode(logrt.lv, logrt.tm, logrt.from, logrt.msg)
       IN  logrt' = [logrt EXCEPT !.st = IF e.ok THEN "built" ELSE "threw",
                                  !.first = e]
    /\ UNCHANGED <<bufVars, chanVars, wireVars, memVars>>

\* event_log second(first.content());
LogReconstruct ==
    /\ logrt.st = "built"
    /\ logrt' = [logrt EXCEPT !.st = "decoded",
                              !.second = EventLogDecode(content(logrt.first))]
    /\ UNCHANGED <<bufVars, chanVars, wireVars, memVars>>

NextLog == LogConstruct \/ LogReconstruct

SpecLog == InitLog /\ [][NextLog]_vars

\* C10 (as claimed): for every level, timestamp, source and message, of every
\* length from 0 on, the first event is constructed and the event built from
\* its content() is constructed too and has the same four values.
C10_EventLogRoundTrip ==
    /\ logrt.st # "threw"
    /\ logrt.st = "decoded" =>
         /\ logrt.second.ok
         /\ logrt.second.lv = ObjRep(logrt.lv, SizeofInt)
         /\ logrt.second.tm = ObjRep(logrt.tm, SizeofInt64)
         /\ logrt.second.from = logrt.from
         /\ logrt.second.msg = logrt.msg

\* auxiliary: the round trip for a non-empty source and a non-empty message
Aux_EventLogRoundTripNonEmpty ==
    (logrt.st = "decoded" /\ logrt.from # <<>> /\ logrt.msg # <<>>) =>
         /\ logrt.second.ok
         /\ logrt.second.lv = ObjRep(logrt.lv, SizeofInt)
         /\ logrt.second.tm = ObjRep(logrt.tm, SizeofInt64)
         /\ logrt.second.from = logrt.from
         /\ logrt.second.msg = logrt.msg
         /\ Len(logrt.first.bytes) = 28 + Len(logrt.from) + Len(logrt.msg)

(***************************************************************************)
(* event_channel (evchannel.h).  evhandlers_ is a function from the event  *)
(* ids that have a vector to that vector; a handler is the pair of its     *)
(* callback_id and the event type E its wrapper decodes.                   *)
(***************************************************************************)
MaxSubs == 3     \* subscribe calls on the channel

EventTypes == {"event_log", "tick_event"}

\* the events posted: built by the constructors of the two event types
PostEvents ==
    {[etype |-> "event_log", bytes |-> EventLogEncode(2, 0, f, m).bytes] :
        f \in {<<97>>}, m \in {<<>>, <<98>>}}
    \cup {[etype |-> "tick_event", bytes |-> TickEncode(k).bytes] : k \in TickValues}

contains(map, ueid) == ueid \in DOMAIN map

\* evhandlers_[ueid] = v
map_put(map, ueid, v) ==
    [k \in DOMAIN map \cup {ueid} |-> IF k = ueid THEN v ELSE map[k]]

\* cbid_count_ after auto cbid = cbid_count_++
next_cbid_count_stuck(c) == c

next_cbid_count(c) == c + 1

InitChan ==
    /\ IdleBuf /\ IdleWire /\ IdleLog /\ IdleMem
    /\ evhandlers_ = <<>>
    /\ cbid_count_ = 0
    /\ issued = <<>>
    /\ chanOp = [op |-> "none"]
    /\ chanCrashed = FALSE

ChanOnly == UNCHANGED <<bufVars, wireVars, logVars, memVars>>

\* cbid_t subscribe<E>(std::function<void(E)>&& event_handler)
Subscribe(E) ==
    /\ ChanOnly /\ ~chanCrashed
    /\ cbid_count_ < MaxSubs
    /\ LET cbid == cbid_count_
           ueid == unique_event_id(E)
           m1   == IF ~contains(evhandlers_, ueid)
                   THEN map_put(evhandlers_, ueid, <<>>) ELSE evhandlers_
       IN  /\ cbid_count_' = next_cbid_count(cbid_count_)
           /\ evhandlers_' = map_put(m1, ueid,
                                Append(m1[ueid], [callback_id |-> cbid, etype |-> E]))
           /\ issued' = Append(issued, cbid)
           /\ chanOp' = [op |-> "subscribe", etype |-> E, id |-> cbid]
    /\ UNCHANGED chanCrashed

RECURSIVE remove_if(_, _)
\* std::remove_if: the elements kept, in order (the new logical range)
remove_if(hs, id) ==
    IF hs = <<>> THEN <<>>
    ELSE IF Head(hs).callback_id = id THEN remove_if(Tail(hs), id)
         ELSE <<Head(hs)>> \o remove_if(Tail(hs), id)

Front(q) == SubSeq(q, 1, Len(q) - 1)

(* bool unsubscribe<E>(callback_id).  handlers.erase(it) erases ONE element:  *)
(* with a match, remove_if returns end() - 1 and the vector loses its last    *)
(* (moved-from) slot.  Without a match remove_if returns end(), and           *)
(* erase(end()) is undefined: libstdc++ destroys the element before end()     *)
(* (the last handler; with an empty vector, memory before the storage), a     *)
(* hardened or other library aborts or runs off the storage.                  *)
Unsubscribe(E, id) ==
    /\ ChanOnly /\ ~chanCrashed
    /\ LET ueid == unique_event_id(E) IN
       IF ~contains(evhandlers_, ueid)
       THEN /\ chanOp' = [op |-> "unsubscribe", etype |-> E, id |-> id,
                          before |-> evhandlers_, result |-> FALSE]
            /\ UNCHANGED <<evhandlers_, chanCrashed>>
       ELSE LET handlers == evhandlers_[ueid]
                kept     == remove_if(handlers, id)
                deleted  == Len(kept) < Len(handlers)
            IN  /\ chanOp' = [op |-> "unsubscribe", etype |-> E, id |-> id,
                              before |-> evhandlers_, result |-> deleted]
                /\ IF deleted
                   THEN /\ evhandlers_' = map_put(evhandlers_, ueid, kept)
                        /\ UNCHANGED chanCrashed
                   ELSE IF handlers = <<>>
                   THEN /\ chanCrashed' = TRUE
                        /\ UNCHANGED evhandlers_
                   ELSE \E outcome \in {"last destroyed", "abort"} :
                          IF outcome = "abort"
                          THEN /\ chanCrashed' = TRUE
                               /\ UNCHANGED evhandlers_
                          ELSE /\ evhandlers_' =
                                    map_put(evhandlers_, ueid, Front(handlers))
                               /\ UNCHANGED chanCrashed
    /\ UNCHANGED <<cbid_count_, issued>>

\* the wrapper subscribe<E> stores: event_handler(E(std::move(buffer)))
wrapper_decode(h, bytes) ==
    IF h.etype = "event_log" THEN EventLogDecode(bytes) ELSE TickDecode(bytes)

\* the handlers called before the loop of post ends: all of them, or those up
\* to the first whose wrapper throws while decoding
handed_count(hs, bytes) ==
    IF \E i \in 1..Len(hs) : ~wrapper_decode(hs[i], bytes).ok
    THEN CHOOSE i \in 1..Len(hs) :
           /\ ~wrapper_decode(hs[i], bytes).ok
           /\ \A j \in 1..(i - 1) : wrapper_decode(hs[j], bytes).ok
    ELSE Len(hs)

\* shared_array_buffer(const shared_array_buffer&) of a buffer with holders,
\* and ~shared_array_buffer of a holder that is not the last: the count after
handle_copied(c) == c + 1

handle_dropped(c) == c - 1

\* handler.callback_function(general_shared_array_buffer_t(buffer)): the
\* temporary is a copy; it is moved into the wrapper's parameter and into
\* E::buffer_.  When E's constructor throws, buffer_ is destroyed; otherwise
\* the event_handler runs (keep: it stores a copy of the event) and the event
\* is destroyed.  The count when the call has ended:
delivered(c, h, bytes, keep) ==
    LET c1 == handle_copied(c)
    IN  IF ~wrapper_decode(h, bytes).ok THEN handle_dropped(c1)
        ELSE handle_dropped(IF keep THEN handle_copied(c1) ELSE c1)

RECURSIVE post_count(_, _, _, _)
\* the count after the deliveries to hs
post_count(c, hs, bytes, keep) ==
    IF hs = <<>> THEN c
    ELSE post_count(delivered(c, Head(hs), bytes, keep), Tail(hs), bytes, keep)

(* void post<E>(E event): handed are the handlers whose callback_function was *)
(* called with a handle to the buffer, invoked the event_handlers that were   *)
(* run with a decoded event, threw whether post ended by an exception.        *)
(* count: reference_count of the event's buffer when post is called (the      *)
(* caller's event is its one holder) and when post has ended: the parameter   *)
(* event is a copy, content() returns a copy, both are destroyed at the end.  *)
Post(ev, keep) ==
    /\ ChanOnly /\ ~chanCrashed
    /\ LET ueid == unique_event_id(ev.etype)
           hs   == IF contains(evhandlers_, ueid) THEN evhandlers_[ueid] ELSE <<>>
           n    == handed_count(hs, content(ev))
           threw == \E i \in 1..Len(hs) : ~wrapper_decode(hs[i], content(ev)).ok
           ran  == IF threw THEN n - 1 ELSE n
       IN  chanOp' = [op |-> "post", etype |-> ev.etype, bytes |-> content(ev),
                      handed |-> SubSeq(hs, 1, n),
                      invoked |-> [i \in 1..ran |->
                                     [callback_id |-> hs[i].callback_id,
                                      ev |-> wrapper_decode(hs[i], content(ev))]],
                      threw |-> threw,
                      kept |-> IF keep THEN ran ELSE 0,
                      count |->
                        [before |-> ctor_reference_count,
                         after |-> handle_dropped(handle_dropped(
                                     post_count(handle_copied(handle_copied(
                                                    ctor_reference_count)),
                                                SubSeq(hs, 1, n), content(ev), keep)))]]
    /\ UNCHANGED <<evhandlers_, cbid_count_, issued, chanCrashed>>

NextChan ==
    \/ \E E \in EventTypes : Subscribe(E)
    \/ \E E \in EventTypes, id \in 0..MaxSubs : Unsubscribe(E, id)
    \/ \E ev \in PostEvents, keep \in BOOLEAN : Post(ev, keep)

SpecChan == InitChan /\ [][NextChan]_vars

(***************************************************************************)
(* Claims about the event_channel.                                         *)
(***************************************************************************)
Registered(E) ==
    IF contains(evhandlers_, unique_event_id(E))
    THEN evhandlers_[unique_event_id(E)] ELSE <<>>

\* C4 (as claimed): post of an event of type E runs the event_handler of
\* every handler registered under E's id, once each and in the order of
\* subscription, each with an event decoded from the posted content, and
\* ends by returning (not by an exception) after the last one.
C4_PostInvokesAllInOrder ==
    chanOp.op = "post" =>
      /\ ~chanOp.threw
      /\ Len(chanOp.invoked) = Len(Registered(chanOp.etype))
      /\ \A i \in 1..Len(chanOp.invoked) :
           /\ chanOp.invoked[i].callback_id = Registered(chanOp.etype)[i].callback_id
           /\ chanOp.invoked[i].ev.ok
      /\ \A i, j \in 1..Len(chanOp.invoked) :
           i < j => chanOp.invoked[i].callback_id < chanOp.invoked[j].callback_id

\* C24: post hands every subscriber registered under the event's id a handle
\* to the one buffer content() returned (a copy of the handle, one increment
\* of the count for each), and when post has returned and no subscriber has
\* kept a handle the count of the buffer is what it was before the call.
C24_PostKeepsCount ==
    chanOp.op = "post" =>
      /\ chanOp.handed = Registered(chanOp.etype)
      /\ (~chanOp.threw /\ chanOp.kept = 0)
             => chanOp.count.after = chanOp.count.before

HasId(hs, id) == \E i \in 1..Len(hs) : hs[i].callback_id = id

\* C5 (as claimed): unsubscribe<E>(id) with an entry of that id under E
\* removes that entry alone, keeps the order of the others and returns true;
\* with no such entry it returns false and changes no subscriber list.
C5_UnsubscribeExact ==
    chanOp.op = "unsubscribe" =>
      LET ueid   == unique_event_id(chanOp.etype)
          before == IF contains(chanOp.before, ueid) THEN chanOp.before[ueid]
                    ELSE <<>>
      IN  IF HasId(before, chanOp.id)
          THEN /\ chanOp.result
               /\ ~chanCrashed
               /\ evhandlers_[ueid] = remove_if(before, chanOp.id)
               /\ \A k \in DOMAIN evhandlers_ : k # ueid =>
                     evhandlers_[k] = chanOp.before[k]
          ELSE /\ ~chanOp.result
               /\ ~chanCrashed
               /\ evhandlers_ = chanOp.before

\* C6: the callback ids subscribe returned, in the order of the calls, are
\* strictly increasing (so none is returned twice, also after unsubscribe
\* removed the entry that held it); each registered entry holds an id that
\* was returned, and subscribe returns the id it registered.
C6_CallbackIdsIncrease ==
    /\ \A i, j \in 1..Len(issued) : i < j => issued[i] < issued[j]
    /\ \A k \in DOMAIN evhandlers_ : \A i \in 1..Len(evhandlers_[k]) :
         /\ \E n \in 1..Len(issued) : issued[n] = evhandlers_[k][i].callback_id
         /\ \A j \in 1..Len(evhandlers_[k]) :
              i < j => evhandlers_[k][i].callback_id < evhandlers_[k][j].callback_id
    /\ chanOp.op = "subscribe" => chanOp.id = issued[Len(issued)]

\* C6 witness: a third id is returned after an earlier subscription was removed
C6_Witness ==
    /\ chanOp.op = "subscribe" /\ Len(issued) = 3
    /\ Len(Registered(chanOp.etype)) = 2
    /\ ~HasId(Registered(chanOp.etype), 0)

\* C7 (as claimed): the two event types have different type identifiers,
\* and post of an event of one type hands its buffer only to handlers
\* subscribed for that type.
C7_EventIdsDistinct ==
    chanOp.op = "post" =>
      /\ unique_event_id("event_log") # unique_event_id("tick_event")
      /\ \A i \in 1..Len(chanOp.handed) : chanOp.handed[i].etype = chanOp.etype

(***************************************************************************)
(* send_packet / recv_packet (evchannel.h) over one connected byte stream, *)
(* with writefd and nonblocking_socket_stream::read (io.h).                *)
(***************************************************************************)
MaxRetry == 1    \* transient failures of write, failed recv calls, per run
Chunk    == 7    \* a partial write or recv moves this many bytes

SizeofHeader     == 16    \* sizeof(event_packet_header): int, padding, size_t
DrainSize        == 1024  \* general_array_buffer_t buffer(1024); char tmp[1024]
RecvPayloadStart == 12    \* stream.reference(12, size)
Addr             == -2    \* a byte of the value of a non-null pointer

\* the byte counts one write() or recv() can return when most bytes can move
Counts(most) == {most} \cup {n \in {Chunk} : n < most}

\* the bytes of the 4 padding bytes of the header, which nothing initialises
Pads == {Fill(4, 0), Fill(4, 170)}

\* the events sent: send_packet takes a const E& and calls content() on it,
\* which event_log declares const and tick_event does not
WireEvents ==
    {[etype |-> "event_log",
      bytes |-> EventLogEncode(2, 1700000000, <<97>>, msg).bytes] :
        msg \in {<<98>>, <<97, 98>>}}

\* the object representation of  event_packet_header hdr { .ueid, .size }
HeaderBytes(ueid, size, pad) ==
    ObjRep(ueid, SizeofInt) \o pad \o ObjRep(size, SizeofSizeT)

\* the object representation of the char* that reference() returned
PtrRep(nonnull) == IF nonnull THEN Fill(SizeofSizeT, Addr) ELSE ObjRep(0, SizeofSizeT)

NoResult == [status |-> "none", evid |-> <<>>, size |-> <<>>, huge |-> FALSE,
             payload |-> <<>>]

InitWire ==
    /\ IdleBuf /\ IdleChan /\ IdleLog /\ IdleMem
    /\ wire = [st |-> "idle", ev |-> [etype |-> "none", bytes |-> <<>>],
               buf |-> <<>>, left |-> 0, off |-> 0, written |-> <<>>,
               retries |-> 0, hard |-> FALSE, closed |-> FALSE]
    /\ rx = [st |-> "idle", stream |-> NewStream(<<>>), taken |-> 0, errs |-> 0,
             zero |-> FALSE, broken |-> FALSE, result |-> NoResult]

WireOnly == UNCHANGED <<bufVars, chanVars, logVars, memVars>>

\* send_packet(fd, ev) up to the first writefd: content, hdr
SendStart(ev, pad) ==
    /\ WireOnly /\ wire.st = "idle"
    /\ LET hdr == HeaderBytes(unique_event_id(ev.etype), Len(content(ev)), pad)
       IN  wire' = [wire EXCEPT !.st = "hdr", !.ev = ev, !.buf = hdr,
                                !.left = SizeofHeader, !.off = 0]
    /\ UNCHANGED rx

\* writefd: write() wrote n of the bytes left; after the last byte of the
\* header send_packet calls writefd for content.pointer(), content.capacity()
WriteSome(n) ==
    /\ WireOnly /\ wire.st \in {"hdr", "payload"}
    /\ n \in Counts(wire.left)
    /\ LET out == wire.written \o SubSeq(wire.buf, wire.off + 1, wire.off + n)
       IN  IF wire.left - n > 0
           THEN wire' = [wire EXCEPT !.written = out, !.left = @ - n, !.off = @ + n]
           ELSE IF wire.st = "hdr" /\ Len(content(wire.ev)) > 0
           THEN wire' = [wire EXCEPT !.written = out, !.st = "payload",
                                     !.buf = content(wire.ev),
                                     !.left = Len(content(wire.ev)), !.off = 0]
           ELSE wire' = [wire EXCEPT !.written = out, !.st = "done",
                                     !.left = 0, !.off = @ + n]
    /\ UNCHANGED rx

\* writefd throwing io_exception for EINTR, EAGAIN or EWOULDBLOCK
WriteTransientRaises ==
    /\ WireOnly /\ wire.st \in {"hdr", "payload"}
    /\ wire.retries < MaxRetry
    /\ wire' = [wire EXCEPT !.st = "failed", !.retries = @ + 1]
    /\ UNCHANGED rx

\* writefd: write() returned -1 with EINTR, EAGAIN or EWOULDBLOCK: continue
WriteTransient ==
    /\ WireOnly /\ wire.st \in {"hdr", "payload"}
    /\ wire.retries < MaxRetry
    /\ wire' = [wire EXCEPT !.retries = @ + 1]
    /\ UNCHANGED rx

\* writefd: write() returned -1 with another errno: io_exception
WriteFail ==
    /\ WireOnly /\ wire.st \in {"hdr", "payload"}
    /\ wire' = [wire EXCEPT !.st = "failed", !.hard = TRUE]
    /\ UNCHANGED rx

\* the sending side shuts the connection down
PeerClose ==
    /\ WireOnly /\ wire.st \in {"done", "failed"} /\ ~wire.closed
    /\ wire' = [wire EXCEPT !.closed = TRUE]
    /\ UNCHANGED rx

Avail == Len(wire.written) - rx.taken

\* recv_packet(fd) up to the loop of nonblocking_socket_stream::read()
RecvStart ==
    /\ WireOnly /\ rx.st = "idle"
    /\ rx' = [rx EXCEPT !.st = "draining",
                        !.stream = set_auto_expand(NewStream(Fill(DrainSize, 0)), TRUE)]
    /\ UNCHANGED wire

\* read(): recv returned r = n > 0 bytes: stream.append(tmp, r)
RecvSome(n) ==
    /\ WireOnly /\ rx.st = "draining" /\ ~rx.broken
    /\ Avail > 0 /\ n \in Counts(IF Avail < DrainSize THEN Avail ELSE DrainSize)
    /\ LET a == append_T(rx.stream, SubSeq(wire.written, rx.taken + 1, rx.taken + n))
       IN  rx' = IF a.ok
                 THEN [rx EXCEPT !.stream = a.s, !.taken = @ + n]
                 ELSE [rx EXCEPT !.st = "done", !.result.status = "io_exception"]
    /\ UNCHANGED wire

\* read(): recv returned -1 with an errno other than EAGAIN / EWOULDBLOCK
\* (EINTR, an error that passes): neither branch is taken and the loop goes on
RecvError ==
    /\ WireOnly /\ rx.st = "draining" /\ ~rx.broken
    /\ rx.errs < MaxRetry
    /\ rx' = [rx EXCEPT !.errs = @ + 1]
    /\ UNCHANGED wire

\* malloc of a size below 2^24 succeeds; of a larger one it may fail
malloc_outcomes(w) == IF Small(w) THEN {TRUE} ELSE {TRUE, FALSE}

(* recv_packet after the drain, on the bytes of the drained buffer:           *)
(*   evid = get_as<int>(); size = get_as<int64_t>();                          *)
(*   recv_buf(size, new heap_allocator());                                    *)
(*   recv_stream.append(stream.reference(12, size));   -- append<char*>: the  *)
(*     8 bytes of the pointer value are written at offset 0 of recv_buf       *)
(*   return make_tuple(evid, recv_buf)                                        *)
(* A buffer larger than the drained one is not laid out: huge |-> TRUE and     *)
(* payload holds its first 8 bytes only.                                      *)
RecvParse(bytes, malloc_ok) ==
    LET g1 == get_as_T(NewStream(bytes), SizeofInt)
        g2 == get_as_T(g1.s, SizeofInt64)
        w  == g2.rep
        ptr == PtrRep(reference_w(bytes, RecvPayloadStart, w))
    IN  IF ~g1.ok \/ ~g2.ok \/ ~malloc_ok
        THEN [NoResult EXCEPT !.status = "memory_exception"]
        ELSE IF Small(w) /\ Val3(w) <= DrainSize
        THEN [status |-> "ok", evid |-> g1.rep, size |-> w, huge |-> FALSE,
              payload |-> append_T(NewStream(NewSharedBuffer(Val3(w))), ptr).s.bytes]
        ELSE [status |-> "ok", evid |-> g1.rep, size |-> w, huge |-> TRUE,
              payload |-> ptr]

\* read() taking r == 0 for the end of the drain, as it takes EAGAIN
recv_zero_breaks(stream) == RecvParse(stream.bytes, TRUE)

\* read(): r == 0: throw io_exception("...", "met EOF"), which recv_packet
\* does not catch: no tuple is returned
recv_zero(stream) == [NoResult EXCEPT !.status = "io_exception"]

\* read(): recv returned 0, the peer having closed with nothing left to read
RecvEOF ==
    /\ WireOnly /\ rx.st = "draining" /\ ~rx.broken
    /\ Avail = 0 /\ wire.closed
    /\ rx' = [rx EXCEPT !.st = "done", !.zero = TRUE,
                        !.result = recv_zero(rx.stream)]
    /\ UNCHANGED wire

\* read(): recv returned -1 with EAGAIN / EWOULDBLOCK: break; the rest of
\* recv_packet runs
RecvWouldBlock ==
    /\ WireOnly /\ rx.st = "draining" /\ ~rx.broken
    /\ Avail = 0 /\ ~wire.closed
    /\ \E ok \in malloc_outcomes(SubSeq(rx.stream.bytes, SizeofInt + 1,
                                         SizeofInt + SizeofInt64)) :
         rx' = [rx EXCEPT !.st = "done",
                          !.result = RecvParse(rx.stream.bytes, ok)]
    /\ UNCHANGED wire

NextWire ==
    \/ \E ev \in WireEvents, pad \in Pads : SendStart(ev, pad)
    \/ \E n \in 1..DrainSize : WriteSome(n)
    \/ WriteTransient
    \/ WriteFail
    \/ PeerClose
    \/ RecvStart
    \/ \E n \in 1..DrainSize : RecvSome(n)
    \/ RecvError
    \/ RecvEOF
    \/ RecvWouldBlock

SpecWire == InitWire /\ [][NextWire]_vars

\* the socket gets an error that every later recv reports (ENOTCONN, EBADF,
\* ENOTSOCK: the descriptor is closed or no connected socket)
SocketFails ==
    /\ WireOnly /\ rx.st \in {"idle", "draining"} /\ ~rx.broken
    /\ rx' = [rx EXCEPT !.broken = TRUE]
    /\ UNCHANGED wire

\* read(): recv returned -1 with that errno: neither branch is taken and the
\* loop goes on; errs counts the iterations up to MaxRetry
RecvErrorAgain ==
    /\ WireOnly /\ rx.st = "draining" /\ rx.broken
    /\ rx' = [rx EXCEPT !.errs = IF @ < MaxRetry THEN @ + 1 ELSE @]
    /\ UNCHANGED wire

\* an iteration of the loop of read()
DrainLoop ==
    \/ \E n \in 1..DrainSize : RecvSome(n)
    \/ RecvError
    \/ RecvErrorAgain
    \/ RecvEOF
    \/ RecvWouldBlock

NextDrain ==
    \/ \E ev \in WireEvents, pad \in Pads : SendStart(ev, pad)
    \/ \E n \in 1..DrainSize : WriteSome(n)
    \/ WriteTransient
    \/ WriteFail
    \/ PeerClose
    \/ RecvStart
    \/ DrainLoop
    \/ SocketFails

\* recv_packet on a socket that can fail, the thread going on with the loop
SpecDrain == InitWire /\ [][NextDrain]_vars /\ WF_vars(DrainLoop)

\* C27: the loop of nonblocking_socket_stream::read ends for every sequence of
\* recv results: at the first would-block, at a read of 0 bytes (with
\* io_exception), and also when recv keeps reporting another error.
C27_DrainTerminates == (rx.st = "draining") ~> (rx.st = "done")

\* send_packet alone, with a write() that does not refuse for ever
NextSend ==
    \/ \E ev \in WireEvents, pad \in Pads : SendStart(ev, pad)
    \/ \E n \in 1..DrainSize : WriteSome(n)
    \/ WriteTransient
    \/ WriteFail

SpecWriteFd ==
    /\ InitWire /\ [][NextSend]_vars
    /\ WF_vars(\E n \in 1..DrainSize : WriteSome(n))

\* the bytes written for the call of writefd in progress
WrittenOfCall ==
    IF wire.st = "hdr" THEN wire.written
    ELSE SubSeq(wire.written, SizeofHeader + 1, Len(wire.written))

\* C15: writefd, over a write() that fails transiently a finite number of
\* times and writes in parts, ends; when it returns it has written the size
\* bytes of buf once each and in order (at every moment the bytes written
\* are the first off bytes of buf); it throws io_exception exactly when
\* write() has reported an error that is not transient.
C15_WriteFdCompletes ==
    /\ [](wire.st \in {"hdr", "payload"} =>
            /\ wire.off + wire.left = Len(wire.buf)
            /\ WrittenOfCall = SubSeq(wire.buf, 1, wire.off))
    /\ [](wire.st = "done" =>
            /\ wire.left = 0 /\ wire.off = Len(wire.buf)
            /\ SubSeq(wire.written, SizeofHeader + 1, Len(wire.written)) = wire.buf)
    /\ [](wire.st = "failed" <=> wire.hard)
    /\ (wire.st \in {"hdr", "payload"} ~> wire.st \in {"done", "failed"})

\* C15 witness: writefd returned after a transient failure and partial writes
C15_Witness ==
    /\ wire.st = "done" /\ wire.retries > 0 /\ ~wire.hard
    /\ Len(wire.written) = SizeofHeader + Len(content(wire.ev))

\* C16: once a recv() of the drain has returned 0, recv_packet has ended
\* with io_exception and has returned no (type id, payload) pair, whatever
\* was received before.
C16_ZeroReadFails ==
    rx.zero =>
      /\ rx.st = "done"
      /\ rx.result.status = "io_exception"
      /\ rx.result.evid = <<>> /\ rx.result.size = <<>> /\ rx.result.payload = <<>>

\* C16 witness: the whole packet was received before the read that returned 0
C16_Witness ==
    /\ rx.zero /\ rx.taken = Len(wire.written) /\ wire.st = "done"
    /\ rx.taken = SizeofHeader + Len(content(wire.ev))

\* every byte send_packet wrote has been drained and recv_packet has ended
AllArrived ==
    /\ wire.st = "done" /\ rx.st = "done"
    /\ rx.taken = Len(wire.written)

\* C8 (as claimed): send_packet followed by recv_packet, once all bytes have
\* arrived, returns the event's type id and a payload buffer whose length
\* and bytes are those of the sender's content().
C8_WireRoundTrip ==
    AllArrived =>
      /\ rx.result.status = "ok"
      /\ rx.result.evid = ObjRep(unique_event_id(wire.ev.etype), SizeofInt)
      /\ rx.result.size = ObjRep(Len(content(wire.ev)), SizeofSizeT)
      /\ ~rx.result.huge
      /\ rx.result.payload = content(wire.ev)

\* C9 (as claimed): send_packet writes 4 bytes of type id, 8 bytes of
\* payload length equal to content().capacity(), then the payload from
\* stream offset 12 on; so the length recv_packet decodes from bytes 4..11
\* is the length send_packet encoded.
C9_HeaderLayout ==
    /\ wire.st = "done" =>
         wire.written = ObjRep(unique_event_id(wire.ev.etype), SizeofInt)
                        \o ObjRep(Len(content(wire.ev)), SizeofSizeT)
                        \o content(wire.ev)
    /\ (AllArrived /\ rx.result.status = "ok") =>
         rx.result.size = ObjRep(Len(content(wire.ev)), SizeofSizeT)

(***************************************************************************)
(* One buffer_stream over one unique_array_buffer (memory.h:164-410): the  *)
(* reading and appending calls and the cursor moves, in any order.         *)
(* A run is any sequence of reading calls and cursor moves, ended by at     *)
(* most one appending call.                                                *)
(*   strm = [st, s, op]: st is "run", "appended" after the appending call, *)
(*   "wild" once a call has touched memory outside the buffer; s the       *)
(*   stream; op the last call: its name, the stream before it, its         *)
(*   argument and what it returned.                                        *)
(***************************************************************************)
MaxCap  == 12    \* largest capacity auto-expand grows the buffer to
MaxPos  == 14    \* the cursor stays within MaxPos of 0, on either side
MaxMove == 2     \* largest len of forward / back, largest size of get

\* sizeof(T) of the plain types read and appended: char, int
Steps == {1, SizeofInt}

\* the 8 bytes of the size_t 2^64 - k, for 0 < k < 256
NegWord(k) == <<256 - k>> \o Fill(SizeofSizeT - 1, 255)

\* the buffers a stream is bound to: zero filled (unique_array_buffer's
\* constructor), or holding a length prefixed field that was received
StreamBuffers ==
    {Fill(n, 0) : n \in {0, 3, SizeofSizeT + 1}}
    \cup {ObjRep(1, SizeofSizeT) \o <<97>>,
          ObjRep(2, SizeofSizeT) \o <<97>>,
          NegWord(SizeofSizeT) \o <<97>>}

\* the text values appended
Texts == {<<>>, <<97>>, <<98, 97>>}

\* get<T>() for a T of step bytes: rep the bytes of the T returned
get_T(s, step) ==
    LET curr == s.pos + step
        eof1 == IF curr = Len(s.bytes) THEN TRUE ELSE s.eof
        ok   == reference(s.bytes, curr - step, step)
    IN  [ok  |-> ok,
         rep |-> IF ok THEN Peek(s.bytes, curr - step, step) ELSE ObjRep(0, step),
         s   |-> [s EXCEPT !.pos = curr, !.eof = IF ok THEN eof1 ELSE TRUE]]

\* get(dest, size): ret the ssize_t returned; when copied, memcpy moved
\* count bytes (a size_t) from buffer_.pointer() + from
get_raw(s, size) ==
    LET curr   == s.pos + size
        cap    == Len(s.bytes)
        remain == cap - s.pos
    IN  IF s.eof
        THEN [ret |-> -1, copied |-> FALSE, from |-> 0, count |-> 0, s |-> s]
        ELSE IF UGe(curr, cap)
        THEN [ret |-> remain, copied |-> reference(s.bytes, s.pos, remain),
              from |-> s.pos, count |-> remain,
              s |-> [s EXCEPT !.eof = TRUE, !.pos = cap]]
        ELSE [ret |-> size, copied |-> reference(s.bytes, s.pos, size),
              from |-> s.pos, count |-> size,
              s |-> [s EXCEPT !.pos = curr]]

\* rewind(), clear_eof(), back(len), forward(len)
rewind(s)    == [s EXCEPT !.pos = 0]
clear_eof(s) == [s EXCEPT !.eof = FALSE]
back(s, len) ==
    LET p == s.pos - len
    IN  [s EXCEPT !.pos = p, !.eof = IF UGt(Len(s.bytes), p) THEN FALSE ELSE @]
forward(s, len) ==
    LET p == s.pos + len
    IN  [s EXCEPT !.pos = p, !.eof = IF UGe(p, Len(s.bytes)) THEN TRUE ELSE @]

\* an access of count bytes (a size_t) at buffer_.pointer() + from leaves
\* the buffer
Outside(bytes, from, count) ==
    count # 0 /\ (from < 0 \/ count < 0 \/ from + count > Len(bytes))

\* what the stream was before a call
Before(s) == [pos |-> s.pos, cap |-> Len(s.bytes), eof |-> s.eof, ax |-> s.ax]

NoOp == [name |-> "none", before |-> Before(NewStream(<<>>)), arg |-> <<>>,
         ok |-> TRUE, threw |-> FALSE, ret |-> 0, rep |-> <<>>, oob |-> FALSE]

InitStream ==
    /\ IdleBuf /\ IdleChan /\ IdleWire /\ IdleLog
    /\ heap = [st |-> "off"] /\ aheap = [st |-> "off"] /\ sbuf = [st |-> "off"]
    /\ \E b \in StreamBuffers :
         strm = [st |-> "run", s |-> NewStream(b), op |-> NoOp]

StreamOnly == UNCHANGED <<bufVars, chanVars, wireVars, logVars, heap, aheap, sbuf>>

\* the call ended: the stream it left and what it did
Did(s1, op) ==
    strm' = [st |-> IF op.oob THEN "wild"
                    ELSE IF op.name \in {"append<T>", "append", "append;get_as"}
                    THEN "appended" ELSE "run",
             s |-> s1, op |-> op]

InReach(p) == p >= -MaxPos /\ p <= MaxPos

SetAutoExpand(enable) ==
    /\ StreamOnly /\ strm.st = "run" /\ strm.s.ax # enable
    /\ Did(set_auto_expand(strm.s, enable),
           [NoOp EXCEPT !.name = "set_auto_expand", !.before = Before(strm.s)])

GetT(step) ==
    /\ StreamOnly /\ strm.st = "run" /\ InReach(strm.s.pos + step)
    /\ LET g == get_T(strm.s, step)
       IN  Did(g.s, [NoOp EXCEPT !.name = "get<T>", !.before = Before(strm.s),
                                 !.arg = step, !.ok = g.ok, !.rep = g.rep,
                                 !.oob = g.ok /\ Outside(strm.s.bytes, strm.s.pos, step)])

GetAsT(step) ==
    /\ StreamOnly /\ strm.st = "run" /\ InReach(strm.s.pos + step)
    /\ LET g == get_as_T(strm.s, step)
       IN  Did(g.s, [NoOp EXCEPT !.name = "get_as<T>", !.before = Before(strm.s),
                                 !.arg = step, !.ok = g.ok, !.threw = ~g.ok,
                                 !.rep = g.rep,
                                 !.oob = g.ok /\ Outside(strm.s.bytes, strm.s.pos, step)])

GetRaw(size) ==
    /\ StreamOnly /\ strm.st = "run" /\ InReach(strm.s.pos + size)
    /\ LET g == get_raw(strm.s, size)
       IN  Did(g.s, [NoOp EXCEPT !.name = "get", !.before = Before(strm.s),
                                 !.arg = size, !.ok = g.copied, !.ret = g.ret,
                                 !.rep = g.count,
                                 !.oob = g.copied /\ Outside(strm.s.bytes, g.from, g.count)])

\* the bytes of the buffer when the n bytes at from that no call has written
\* turn out to hold v
Settle(bytes, from, n, v) ==
    [i \in 1..Len(bytes) |->
       IF i > from /\ i <= from + n /\ bytes[i] = Uninit THEN v ELSE bytes[i]]

\* get_as() touches memory outside the buffer, or returns a view that does
sv_outside(s, g) ==
    \/ reference(s.bytes, s.pos, SizeofSizeT) /\ Outside(s.bytes, s.pos, SizeofSizeT)
    \/ g.wild

GetAsSv ==
    /\ StreamOnly /\ strm.st = "run"
    /\ \E v \in {0, 255} :
         LET s0 == [strm.s EXCEPT !.bytes = Settle(@, strm.s.pos, SizeofSizeT, v)]
             g  == get_as_sv(s0)
         IN  /\ InReach(g.s.pos)
             /\ Did(g.s, [NoOp EXCEPT !.name = "get_as", !.before = Before(strm.s),
                                      !.ret = g.s.pos, !.rep = g.view,
                                      !.oob = sv_outside(s0, g)])

\* append: auto-expand asks for a capacity that realloc refuses (2^64 - k
\* bytes, or 0 bytes): expand throws memory_exception before position_ moves
expand_throws(s, curr) == s.ax /\ UGe(curr, Len(s.bytes)) /\ curr <= 0

\* the model grows no buffer beyond MaxCap
Growable(s, curr) ==
    /\ InReach(curr)
    /\ (s.ax /\ UGe(curr, Len(s.bytes)) /\ curr > 0) => curr <= MaxCap

AppendT(step) ==
    /\ StreamOnly /\ strm.st = "run" /\ Growable(strm.s, strm.s.pos + step)
    /\ LET op == [NoOp EXCEPT !.name = "append<T>", !.before = Before(strm.s),
                              !.arg = step]
           a  == append_T(strm.s, ObjRep(1, step))
       IN  IF expand_throws(strm.s, strm.s.pos + step)
           THEN Did(strm.s, [op EXCEPT !.ok = FALSE, !.threw = TRUE,
                                       !.oob = (strm.s.pos + step = 0)])
           ELSE Did(a.s, [op EXCEPT !.ok = a.ok,
                                    !.oob = a.ok /\ Outside(a.s.bytes, strm.s.pos, step)])

\* the writes of append(string_view) that pass write()'s check and leave the buffer
sv_write_outside(bytes, pos, len) ==
    /\ reference(bytes, pos, SizeofSizeT)
    /\ \/ Outside(bytes, pos, SizeofSizeT)
       \/ reference(bytes, pos + SizeofSizeT, len)
            /\ Outside(bytes, pos + SizeofSizeT, len)

AppendSv(str) ==
    /\ StreamOnly /\ strm.st = "run"
    /\ Growable(strm.s, strm.s.pos + SizeofSizeT + Len(str))
    /\ LET op == [NoOp EXCEPT !.name = "append", !.before = Before(strm.s),
                              !.arg = str]
           a  == append_sv(strm.s, str)
       IN  IF expand_throws(strm.s, strm.s.pos + SizeofSizeT + Len(str))
           THEN Did(strm.s, [op EXCEPT !.ok = FALSE, !.threw = TRUE,
                                       !.oob = (strm.s.pos + SizeofSizeT + Len(str) = 0)])
           ELSE Did(a.s, [op EXCEPT !.ok = a.ok,
                                    !.oob = sv_write_outside(a.s.bytes, strm.s.pos, Len(str))])

Rewind ==
    /\ StreamOnly /\ strm.st = "run" /\ strm.s.pos # 0
    /\ Did(rewind(strm.s), [NoOp EXCEPT !.name = "rewind", !.before = Before(strm.s)])

ClearEof ==
    /\ StreamOnly /\ strm.st = "run" /\ strm.s.eof
    /\ Did(clear_eof(strm.s), [NoOp EXCEPT !.name = "clear_eof", !.before = Before(strm.s)])

Back(len) ==
    /\ StreamOnly /\ strm.st = "run" /\ InReach(strm.s.pos - len)
    /\ Did(back(strm.s, len), [NoOp EXCEPT !.name = "back", !.before = Before(strm.s),
                                           !.arg = len])

Forward(len) ==
    /\ StreamOnly /\ strm.st = "run" /\ InReach(strm.s.pos + len)
    /\ Did(forward(strm.s, len), [NoOp EXCEPT !.name = "forward", !.before = Before(strm.s),
                                              !.arg = len])

\* stream.append(str); stream.back(position moved); stream.get_as();
RoundTripSv(str) ==
    /\ StreamOnly /\ strm.st = "run"
    /\ Growable(strm.s, strm.s.pos + SizeofSizeT + Len(str))
    /\ ~expand_throws(strm.s, strm.s.pos + SizeofSizeT + Len(str))
    /\ \E v \in {0, 255} :
         LET a  == append_sv(strm.s, str)
             b  == back(a.s, a.s.pos - strm.s.pos)
             s0 == [b EXCEPT !.bytes = Settle(@, b.pos, SizeofSizeT, v)]
             g  == get_as_sv(s0)
         IN  /\ InReach(g.s.pos)
             /\ Did(g.s, [NoOp EXCEPT !.name = "append;get_as",
                                      !.before = Before(strm.s), !.arg = str,
                                      !.ok = a.ok, !.ret = g.s.pos, !.rep = g.view,
                                      !.oob = sv_write_outside(a.s.bytes, strm.s.pos, Len(str))
                                              \/ sv_outside(s0, g)])

NextStream ==
    \/ \E enable \in BOOLEAN : SetAutoExpand(enable)
    \/ \E step \in Steps : GetT(step)
    \/ \E step \in Steps : GetAsT(step)
    \/ \E size \in 0..MaxMove : GetRaw(size)
    \/ GetAsSv
    \/ \E step \in Steps : AppendT(step)
    \/ \E str \in Texts : AppendSv(str)
    \/ Rewind
    \/ ClearEof
    \/ \E len \in 1..MaxMove : Back(len)
    \/ \E len \in 1..MaxMove : Forward(len)
    \/ \E str \in Texts : RoundTripSv(str)

SpecStream == InitStream /\ [][NextStream]_vars

\* machine words for offset and size: a negative n stands for 2^64 + n
Words == {0, 1, 3, SizeofSizeT, -1, -SizeofSizeT}

\* stream.reference(offset, size), called on a new stream of any buffer
Reference(offset, size) ==
    /\ StreamOnly /\ strm.st = "run"
    /\ Did(strm.s, [NoOp EXCEPT !.name = "reference", !.before = Before(strm.s),
                                !.arg = <<offset, size>>,
                                !.ok = reference(strm.s.bytes, offset, size)])

NextReference == \E offset \in Words, size \in Words : Reference(offset, size)

SpecReference == InitStream /\ [][NextReference]_vars

(***************************************************************************)
(* Claims about buffer_stream.                                             *)
(***************************************************************************)
\* the text went in and came out: the view returned has the bytes of the
\* text appended and the cursor stands behind the field
CameBack(op) ==
    /\ op.rep = op.arg
    /\ op.ret = op.before.pos + SizeofSizeT + Len(op.arg)

C12_GetRawBounded ==
    strm.op.name = "get" =>
      IF strm.op.before.eof
      THEN strm.op.ret = -1 /\ strm.s.pos = strm.op.before.pos
      ELSE /\ strm.op.ret >= 0 /\ strm.op.ret <= strm.op.arg
           /\ strm.op.rep = strm.op.ret
           /\ ~strm.op.oob
           /\ UGe(strm.op.before.pos + strm.op.arg, strm.op.before.cap) => strm.s.eof

C14_GetAsSvFrame ==
    strm.op.name = "get_as" =>
      LET p       == strm.op.before.pos
          w       == Peek(strm.s.bytes, p, SizeofSizeT)
          fieldIn == p >= 0 /\ p + SizeofSizeT <= strm.op.before.cap
          inside  == /\ fieldIn /\ Small(w)
                     /\ p + SizeofSizeT + Val3(w) <= strm.op.before.cap
      IN  IF inside
          THEN /\ strm.op.rep = Peek(strm.s.bytes, p + SizeofSizeT, Val3(w))
               /\ strm.s.pos = p + SizeofSizeT + Val3(w)
          ELSE /\ strm.op.rep = <<>> /\ ~strm.op.oob
               /\ strm.s.eof /\ strm.s.pos = p

\* C23: after forward(len) or back(len), in any state the stream's calls
\* reach, the end-of-stream flag is true exactly when the new position is at
\* or beyond the capacity.
C23_EofAfterMove ==
    strm.op.name \in {"forward", "back"}
        => (strm.s.eof <=> UGe(strm.s.pos, Len(strm.s.bytes)))

\* C25: for every pair of words offset and size, wrapping sums included,
\* reference(offset, size) returns a pointer exactly when the bytes
\* [offset, offset + size) lie inside the buffer.
C25_ReferenceExact ==
    strm.op.name = "reference"
        => (strm.op.ok <=> /\ strm.op.arg[1] >= 0 /\ strm.op.arg[2] >= 0
                           /\ strm.op.arg[1] + strm.op.arg[2] <= strm.op.before.cap)

\* C29: an append that returns false, auto-expand being off and the field not
\* fitting, leaves the position and the bytes of the buffer as they were, and
\* so leaves the position within the capacity.
C29_FailedAppendChangesNothing ==
    [][(/\ strm'.op.name \in {"append<T>", "append"}
        /\ ~strm'.op.ok /\ ~strm'.op.threw /\ ~strm.s.ax)
           => /\ strm'.s.pos = strm.s.pos
              /\ strm'.s.bytes = strm.s.bytes
              /\ ~UGt(strm'.s.pos, Len(strm'.s.bytes))]_vars

(***************************************************************************)
(* heap_allocator and the buffers built on it: unique_array_buffer and     *)
(* the teardown of shared_array_buffer                                     *)
(* (include/memory.h).  The blocks of the system allocator are numbered    *)
(* in the order malloc / realloc hand them out; NULL is the null pointer.  *)
(* live is the set of blocks the system allocator holds as allocated,      *)
(* freed the blocks given back to it, in order (by free, or by a realloc   *)
(* that moved the block).                                                  *)
(***************************************************************************)
MaxBlocks == 3

\* what realloc() can do with a block
ReallocOutcomes == {"moved", "same", "null"}

\* the position of the first record equal to p, 0 if there is none
IndexOf(seq, p) ==
    IF \E i \in 1..Len(seq) : seq[i] = p
    THEN CHOOSE i \in 1..Len(seq) :
             seq[i] = p /\ \A j \in 1..(i - 1) : seq[j] # p
    ELSE 0

\* the records freed last to first
heap_free_all_reversed(h, recs) ==
    LET n     == Len(recs)
        given == SelectSeq([i \in 1..n |-> recs[n + 1 - i]], LAMBDA p : p # NULL)
    IN  [h EXCEPT !.freed = @ \o given,
                  !.live  = @ \ {given[i] : i \in 1..Len(given)}]

\* free(p) for every record, in order: free(nullptr) does nothing; a block
\* that is not allocated, or comes twice, is a double free
heap_free_all(h, recs) ==
    LET given == SelectSeq(recs, LAMBDA p : p # NULL)
    IN  [h EXCEPT !.freed = @ \o given,
                  !.live  = @ \ {given[i] : i \in 1..Len(given)},
                  !.bad   = \/ @
                            \/ \E i \in 1..Len(given) :
                                 \/ given[i] \notin h.live
                                 \/ \E j \in 1..(i - 1) : given[j] = given[i]]

\* heap_allocator::allocate; ok: malloc returned a block
heap_allocate(h, ok) ==
    IF ok
    THEN [h EXCEPT !.ptrs_ = Append(@, h.next), !.live = @ \cup {h.next},
                   !.handed = @ \cup {h.next}, !.next = @ + 1,
                   !.ret = h.next, !.threw = FALSE]
    ELSE [h EXCEPT !.ret = NULL, !.threw = TRUE]

\* heap_allocator::reallocate; out: what realloc did
heap_reallocate(h, p, out) ==
    LET i == IndexOf(h.ptrs_, p)
    IN  IF i = 0 THEN [h EXCEPT !.ret = NULL, !.threw = FALSE]
        ELSE IF out = "null"
        THEN [h EXCEPT !.ptrs_[i] = NULL, !.ret = NULL, !.threw = TRUE]
        ELSE IF out = "same" /\ p # NULL
        THEN [h EXCEPT !.ret = p, !.threw = FALSE]
        ELSE [h EXCEPT !.ptrs_[i] = h.next,
                       !.live = (@ \ {p}) \cup {h.next},
                       !.handed = @ \cup {h.next},
                       !.freed = IF p # NULL THEN Append(@, p) ELSE @,
                       !.bad = @ \/ (p # NULL /\ p \notin h.live),
                       !.next = @ + 1, !.ret = h.next, !.threw = FALSE]

\* heap_allocator::release
heap_release(h) == [heap_free_all(h, h.ptrs_) EXCEPT !.ptrs_ = <<>>]

\* heap_allocator::~heap_allocator
heap_dtor(h) == IF h.ptrs_ # <<>> THEN heap_release(h) ELSE h

\* unique_array_buffer::release and the body of its destructor
unique_release(h) == IF h.ptr_ # NULL THEN heap_release(h) ELSE h

HeapBefore(h) == [ptrs_ |-> h.ptrs_, live |-> h.live, freed |-> h.freed]

InitHeap ==
    /\ IdleBuf /\ IdleChan /\ IdleWire /\ IdleLog
    /\ strm = [st |-> "off"] /\ aheap = [st |-> "off"] /\ sbuf = [st |-> "off"]
    /\ heap = [st |-> "alloc", ptrs_ |-> <<>>, live |-> {}, handed |-> {},
               freed |-> <<>>, ptr_ |-> NULL, meta_ |-> NULL, reference_count |-> 0,
               next |-> 1, bad |-> FALSE,
               ret |-> NULL, threw |-> FALSE,
               op |-> [name |-> "none",
                       before |-> [ptrs_ |-> <<>>, live |-> {}, freed |-> <<>>]]]

\* the call ended and left the allocator h1
HeapDid(name, st, h1) ==
    /\ heap' = [h1 EXCEPT !.st = st,
                          !.op = [name |-> name, before |-> HeapBefore(heap)]]
    /\ UNCHANGED <<bufVars, chanVars, wireVars, logVars, strm, aheap, sbuf>>

\* the outcomes the system allocator has left: a new block only below the bound
CanGive(h, new) == new => h.next <= MaxBlocks

HeapAllocate(ok) ==
    /\ heap.st = "alloc" /\ CanGive(heap, ok)
    /\ HeapDid("allocate", "alloc", heap_allocate(heap, ok))

HeapReallocate(p, out) ==
    /\ heap.st = "alloc" /\ CanGive(heap, out = "moved" \/ p = NULL)
    /\ HeapDid("reallocate", "alloc", heap_reallocate(heap, p, out))

HeapRelease ==
    /\ heap.st = "alloc"
    /\ HeapDid("release", "alloc", heap_release(heap))

HeapDestroy ==
    /\ heap.st = "alloc"
    /\ HeapDid("~heap_allocator", "gone", heap_dtor(heap))

\* unique_array_buffer(capacity, std::move(allocator)): when allocate throws,
\* the member allocator_ is destroyed with the half built buffer
UniqueConstruct(ok) ==
    /\ heap.st = "alloc" /\ CanGive(heap, ok)
    /\ LET a == heap_allocate(heap, ok)
       IN  IF ok
           THEN HeapDid("unique_array_buffer", "unique", [a EXCEPT !.ptr_ = a.ret])
           ELSE HeapDid("unique_array_buffer", "gone", heap_dtor(a))

UniqueExpand(out) ==
    /\ heap.st = "unique" /\ CanGive(heap, out = "moved" \/ heap.ptr_ = NULL)
    /\ LET a == heap_reallocate(heap, heap.ptr_, out)
       IN  HeapDid("expand", "unique",
                   IF a.threw THEN a ELSE [a EXCEPT !.ptr_ = a.ret])

UniqueRelease ==
    /\ heap.st = "unique"
    /\ HeapDid("unique_release", "unique", unique_release(heap))

UniqueDestroy ==
    /\ heap.st = "unique"
    /\ HeapDid("~unique_array_buffer", "gone", heap_dtor(unique_release(heap)))

\* shared_array_buffer(capacity, allocator): the metadata block is allocated
\* first, the data block second; a failing allocate leaves the constructor
SharedConstruct(ok1, ok2) ==
    /\ heap.st = "alloc"
    /\ CanGive(heap, ok1) /\ CanGive(heap_allocate(heap, ok1), ok1 /\ ok2)
    /\ LET a == heap_allocate(heap, ok1)
           b == heap_allocate(a, ok2)
       IN  IF ~ok1 THEN HeapDid("shared_array_buffer", "alloc", a)
           ELSE IF ~ok2 THEN HeapDid("shared_array_buffer", "alloc", b)
           ELSE HeapDid("shared_array_buffer", "shared",
                        [b EXCEPT !.meta_ = a.ret, !.ptr_ = b.ret,
                                  !.reference_count = 1])

\* shared_array_buffer::expand; when reallocate throws, the exception leaves
\* expand with meta::rwlock and meta::mutex locked ("locked"): a later lock()
\* of the mutex by the same thread is undefined, it blocks for ever or returns
SharedExpand(out) ==
    /\ heap.st = "shared" /\ CanGive(heap, out = "moved" \/ heap.ptr_ = NULL)
    /\ LET a == heap_reallocate(heap, heap.ptr_, out)
       IN  IF a.threw THEN HeapDid("shared_expand", "locked", a)
           ELSE HeapDid("shared_expand", "shared", [a EXCEPT !.ptr_ = a.ret])

\* shared_array_buffer(const shared_array_buffer&)
SharedCopy ==
    /\ heap.st \in {"shared", "locked"} /\ heap.reference_count < MaxHandles
    /\ HeapDid("shared_copy", heap.st, [heap EXCEPT !.reference_count = @ + 1])

\* ~shared_array_buffer: the last handle calls allocator->release() and
\* then deletes the allocator
SharedDestroy ==
    /\ heap.st \in {"shared", "locked"}
    /\ LET a == [heap EXCEPT !.reference_count = @ - 1]
       IN  IF a.reference_count = 0
           THEN HeapDid("~shared_array_buffer", "gone", heap_dtor(heap_release(a)))
           ELSE HeapDid("~shared_array_buffer", heap.st, a)

NextHeap ==
    \/ \E ok \in BOOLEAN : HeapAllocate(ok)
    \/ \E p \in heap.handed \cup {NULL}, out \in ReallocOutcomes : HeapReallocate(p, out)
    \/ HeapRelease
    \/ HeapDestroy
    \/ \E ok \in BOOLEAN : UniqueConstruct(ok)
    \/ \E out \in ReallocOutcomes : UniqueExpand(out)
    \/ UniqueRelease
    \/ UniqueDestroy
    \/ \E ok1, ok2 \in BOOLEAN : SharedConstruct(ok1, ok2)
    \/ \E out \in ReallocOutcomes : SharedExpand(out)
    \/ SharedCopy
    \/ SharedDestroy

SpecHeap == InitHeap /\ [][NextHeap]_vars

(***************************************************************************)
(* aligned_heap_allocator (include/memory.h).  Addresses are numbers: the  *)
(* system allocator hands out blocks [base, base + n) that do not overlap  *)
(* the blocks it holds as allocated, at a base that is a multiple of       *)
(* MallocAlign.  passed is the set of the calls of free() and realloc()    *)
(* made; freeing an address that is not the base of an allocated           *)
(* block is undefined, and the allocator is then in state "undefined".     *)
(***************************************************************************)
MaxBase == 6

MaxChunks == 2

MallocAlign == 16

Aligns == {1, 3, 16, 64}

Sizes == {1, 8}

Bases == {MallocAlign * k : k \in 1..MaxBase}

\* the system allocator can place n bytes at base, apart from the block at skip
Fits(h, base, n, skip) ==
    \A b \in h.live :
        b.base = skip \/ base + n <= b.base \/ b.base + b.size <= base

\* aligned_heap_allocator::allocate; base: what malloc(size + align_) returned
aligned_allocate(h, size, base) ==
    LET offset == base % h.align_
        ptr    == base + offset
    IN  IF base = NULL
        THEN [h EXCEPT !.op = [name |-> "allocate", ret |-> NULL, size |-> size,
                               base |-> NULL, threw |-> TRUE]]
        ELSE [h EXCEPT !.ptrs_ = Append(@, [ptr |-> ptr, offset |-> offset]),
                       !.live = @ \cup {[base |-> base, size |-> size + h.align_]},
                       !.given = @ + 1,
                       !.op = [name |-> "allocate", ret |-> ptr, size |-> size,
                               base |-> base, threw |-> FALSE]]

\* aligned_heap_allocator::reallocate; base: what realloc returned
aligned_reallocate(h, p, size, base) ==
    LET found  == {i \in 1..Len(h.ptrs_) : h.ptrs_[i].ptr = p}
        i      == CHOOSE i \in found : \A j \in found : i <= j
        old    == h.ptrs_[i].ptr - h.ptrs_[i].offset
        offset == base % h.align_
        ptr    == base + offset
        call   == [fn |-> "realloc", addr |-> old,
                   isbase |-> \E b \in h.live : b.base = old]
    IN  IF found = {}
        THEN [h EXCEPT !.op = [name |-> "reallocate", ret |-> NULL, size |-> size,
                               base |-> NULL, threw |-> FALSE]]
        ELSE IF base = NULL
        THEN [h EXCEPT !.passed = @ \cup {call},
                       !.op = [name |-> "reallocate", ret |-> NULL, size |-> size,
                               base |-> NULL, threw |-> TRUE]]
        ELSE [h EXCEPT !.passed = @ \cup {call},
                       !.ptrs_[i] = [ptr |-> ptr, offset |-> offset],
                       !.live = {b \in @ : b.base # old}
                                    \cup {[base |-> base, size |-> size + h.align_]},
                       !.given = IF base = old THEN @ ELSE @ + 1,
                       !.op = [name |-> "reallocate", ret |-> ptr, size |-> size,
                               base |-> base, threw |-> FALSE]]

\* aligned_heap_allocator::release: free(record.ptr) for every record
aligned_release(h) ==
    LET call(i) == [fn |-> "free", addr |-> h.ptrs_[i].ptr,
                    isbase |-> \E b \in h.live : b.base = h.ptrs_[i].ptr]
        calls   == [i \in 1..Len(h.ptrs_) |-> call(i)]
    IN  [h EXCEPT !.passed = @ \cup {calls[i] : i \in 1..Len(calls)},
                  !.live = {b \in @ : \A i \in 1..Len(calls) : calls[i].addr # b.base},
                  !.st = IF \E i \in 1..Len(calls) : ~calls[i].isbase
                         THEN "undefined" ELSE @,
                  !.ptrs_ = <<>>,
                  !.op = [name |-> "release", ret |-> NULL, size |-> 0,
                          base |-> NULL, threw |-> FALSE]]

\* aligned_heap_allocator::~aligned_heap_allocator
aligned_dtor(h) ==
    LET r == IF h.ptrs_ # <<>> THEN aligned_release(h) ELSE h
    IN  [r EXCEPT !.st = IF @ = "undefined" THEN @ ELSE "gone",
                  !.op.name = "~aligned_heap_allocator"]

InitAligned ==
    /\ IdleBuf /\ IdleChan /\ IdleWire /\ IdleLog
    /\ strm = [st |-> "off"] /\ heap = [st |-> "off"] /\ sbuf = [st |-> "off"]
    /\ \E align \in Aligns :
         aheap = [st |-> "alloc", align_ |-> align, ptrs_ |-> <<>>, live |-> {},
                  given |-> 0, passed |-> {},
                  op |-> [name |-> "none", ret |-> NULL, size |-> 0,
                          base |-> NULL, threw |-> FALSE]]

AlignedOnly == UNCHANGED <<bufVars, chanVars, wireVars, logVars, strm, heap, sbuf>>

AlignedAllocate(size, base) ==
    /\ aheap.st = "alloc"
    /\ base # NULL => /\ aheap.given < MaxChunks
                      /\ Fits(aheap, base, size + aheap.align_, NULL)
    /\ aheap' = aligned_allocate(aheap, size, base)
    /\ AlignedOnly

AlignedReallocate(p, size, base) ==
    /\ aheap.st = "alloc"
    /\ LET old == p.ptr - p.offset
       IN  base # NULL => /\ base # old => aheap.given < MaxChunks
                          /\ Fits(aheap, base, size + aheap.align_,
                                  IF base = old THEN old ELSE NULL)
    /\ aheap' = aligned_reallocate(aheap, p.ptr, size, base)
    /\ AlignedOnly

AlignedRelease ==
    /\ aheap.st = "alloc"
    /\ aheap' = aligned_release(aheap)
    /\ AlignedOnly

AlignedDestroy ==
    /\ aheap.st = "alloc"
    /\ aheap' = aligned_dtor(aheap)
    /\ AlignedOnly

NextAligned ==
    \/ \E size \in Sizes, base \in Bases \cup {NULL} : AlignedAllocate(size, base)
    \/ \E i \in 1..Len(aheap.ptrs_), size \in Sizes, base \in Bases \cup {NULL} :
           AlignedReallocate(aheap.ptrs_[i], size, base)
    \/ AlignedRelease
    \/ AlignedDestroy

SpecAligned == InitAligned /\ [][NextAligned]_vars

(***************************************************************************)
(* Claims about the allocators.                                            *)
(***************************************************************************)
\* how often block b was given back to the system allocator
TimesFreed(b) == Cardinality({i \in 1..Len(heap.freed) : heap.freed[i] = b})

\* C17: across allocate, reallocate / expand, repeated release() and the
\* teardown of a heap_allocator, or of a unique_array_buffer built on it,
\* no block handed out is freed twice, after the teardown every block handed
\* out has been freed once (none is leaked), and release() on an empty
\* registry changes nothing.
C17_EveryBlockFreedOnce ==
    heap.st # "off" =>
        /\ ~heap.bad
        /\ \A b \in heap.handed : TimesFreed(b) <= 1
        /\ heap.st = "gone" => \A b \in heap.handed : TimesFreed(b) = 1
        /\ (heap.op.name \in {"release", "unique_release"} /\ heap.op.before.ptrs_ = <<>>)
               => HeapBefore(heap) = heap.op.before

\* C18: the pointer aligned_heap_allocator::allocate / reallocate returns is
\* a multiple of the alignment, and the size bytes starting at it lie inside
\* the underlying block of size + align_ bytes, for every alignment and
\* every base address of the system allocator.
C18_ReturnedPointerAligned ==
    (aheap.st # "off" /\ aheap.op.name \in {"allocate", "reallocate"} /\ aheap.op.ret # NULL)
        => /\ aheap.op.ret % aheap.align_ = 0
           /\ aheap.op.base <= aheap.op.ret
           /\ aheap.op.ret + aheap.op.size <= aheap.op.base + aheap.op.size + aheap.align_

\* C19: every address aligned_heap_allocator passes to free() or realloc()
\* is the base address of a block that is allocated at that moment, never
\* the adjusted pointer of a record whose offset is not zero.
C19_FreesTrueBase ==
    aheap.st # "off" => \A call \in aheap.passed : call.isbase

\* the place of block b in the order the blocks were given back, 0 if it was not
FreedAt(b) == IndexOf(heap.freed, b)

\* C20: when the last handle of a shared_array_buffer is destroyed, the data
\* block is freed, then the metadata block, then the allocator is destroyed;
\* also after expand has reallocated the data block.
C20_TeardownOrder ==
    (heap.st = "gone" /\ heap.op.name = "~shared_array_buffer")
        => /\ FreedAt(heap.ptr_) # 0 /\ FreedAt(heap.meta_) # 0
           /\ FreedAt(heap.ptr_) < FreedAt(heap.meta_)
           /\ heap.ptrs_ = <<>> /\ heap.live = {}

\* C20, amended: when the last handle of a shared_array_buffer is destroyed,
\* release() frees the blocks in the order of the allocator's registry: the
\* metadata block is freed first, the data block after it if the registry
\* still holds it, and then the allocator is destroyed with an empty
\* registry; also after expand has reallocated the data block.
C20_MetadataFreedFirst ==
    (heap.st = "gone" /\ heap.op.name = "~shared_array_buffer")
        => /\ FreedAt(heap.meta_) # 0
           /\ FreedAt(heap.ptr_) # 0 => FreedAt(heap.meta_) < FreedAt(heap.ptr_)
           /\ IndexOf(heap.op.before.ptrs_, heap.ptr_) # 0 => FreedAt(heap.ptr_) # 0
           /\ heap.ptrs_ = <<>>

\* the last handle was destroyed after expand had moved the data block
C20_Witness ==
    /\ heap.st = "gone" /\ heap.op.name = "~shared_array_buffer"
    /\ heap.op.before.ptrs_ = <<heap.meta_, heap.ptr_>>
    /\ Len(heap.freed) = 3 /\ heap.freed[1] \notin {heap.meta_, heap.ptr_}
    /\ heap.freed[2] = heap.meta_ /\ heap.freed[3] = heap.ptr_

(***************************************************************************)
(* Claims about the handles of one shared_array_buffer.                    *)
(***************************************************************************)
Quiescent == \A t \in Threads : pc[t] = "idle"

NoDuplicates(q) == \A i, j \in 1..Len(q) : i # j => q[i] # q[j]

\* C1: after any sequence of construct, copy, move and destroy calls (no call
\* in progress) reference_count equals the number of live handles holding the
\* metadata pointer; the destructor of a moved-from handle decrements nothing
\* and every other destructor decrements once; release() has run exactly once
\* if no holder is left and not at all otherwise, it ran when no other holder
\* was alive, and it freed every block once.
C1_RefcountEqualsHolders ==
    Quiescent =>
      /\ reference_count = Cardinality(Holders)
      /\ \A h \in HandleIds :
           handles[h].st = "dead" =>
             decs[h] = IF handles[h].meta = NULL THEN 0 ELSE 1
      /\ Len(releases) = IF Holders = {} THEN 1 ELSE 0
      /\ \A i \in 1..Len(releases) : releases[i].holders = 0
      /\ NoDuplicates(freeLog)
      /\ (Holders = {}) = (ptrs_ = <<>>)

\* C1 witness: the buffer was released after two holders were destroyed and a
\* moved-from handle was destroyed too
C1_Witness ==
    /\ Quiescent /\ Len(releases) = 1
    /\ \E h \in HandleIds : handles[h].st = "dead" /\ handles[h].meta = NULL
    /\ \E g, h \in HandleIds :
         /\ g # h
         /\ handles[g].st = "dead" /\ handles[g].meta # NULL
         /\ handles[h].st = "dead" /\ handles[h].meta # NULL

\* C2: in every interleaving of the threads' copies and destructions the
\* count is never negative, no handle causes more than one decrement (a
\* destroyed holder exactly one), and release() is run at most once, by the
\* thread whose decrement stored 0.
C2_ConcurrentDropsSerialize ==
    /\ reference_count >= 0
    /\ \A h \in HandleIds :
         /\ decs[h] <= 1
         /\ handles[h].st = "dead" =>
              decs[h] = IF handles[h].meta = NULL THEN 0 ELSE 1
    /\ Len(zeroDecs) <= 1
    /\ Len(releases) <= Len(zeroDecs)
    /\ \A i \in 1..Len(releases) :
         /\ releases[i].thread = zeroDecs[i]
         /\ releases[i].holders = 0

\* C2 witness: thread 1 holds the mutex having taken the count from 2 to 1
\* while the destructor of thread 2 waits for the mutex to take it to 0
C2_Witness ==
    /\ pc[1] = "d_test" /\ pc[2] = "d_lock"
    /\ reference_count = 1 /\ mutex = 1

\* C3 (as claimed): a copy from a source whose count has reached 0 never gets
\* past the test of the count: the count is not incremented and no live
\* handle built from such a source exists.
C3_CopyAfterReleaseFails ==
    /\ \A t \in Threads : loc[t].zeroSrc => pc[t] \notin {"c_store", "c_unlock"}
    /\ \A h \in HandleIds : ~(handles[h].st = "live" /\ handles[h].fromReleased)

\* C26: in the destructor of the last handle every lock of the count mutex is
\* matched by one unlock (an unlock is done by the thread that holds the
\* mutex), and no field of the metadata block, the mutex included, is
\* accessed after release() has freed the block.
C26_LastDestructorClean ==
    [][/\ ~uaf'
       /\ \A t \in Threads :
            (pc[t] = "d_unlock" /\ pc'[t] = "idle") => mutex = t]_vars


(***************************************************************************)
(* One shared_array_buffer used by threads at once: each thread has its    *)
(* own auto-expanding buffer_stream on it and calls read, write, rewind    *)
(* and append of the stream and expand, the copy constructor and the       *)
(* destructor of a copy on the buffer. The steps of a call are the places  *)
(* where it takes a lock of the metadata block or gives one back.          *)
(* sbuf.writer / sbuf.readers are meta::rwlock, sbuf.mutex is meta::mutex; *)
(* call[t] is the call of thread t in progress: op, the label pc it has    *)
(* reached, its argument n (an offset, a capacity, append's curr) and what *)
(* it returned. A field is one byte long. The eof_ flag of the streams is  *)
(* in the stream model above.                                              *)
(***************************************************************************)
MaxOff  == 2     \* largest offset of read / write, largest position of append
MaxRefs == 2     \* handles of the buffer alive at once

Offsets == 0..MaxOff

\* std::shared_mutex is free to prefer readers or waiting writers; a second
\* lock_shared by a thread that holds the lock is undefined, and what it does
\* depends on that
Prefers == {"reader", "writer"}

IdleCall == [op |-> "none", pc |-> "idle", n |-> 0, ret |-> "none"]

InitLock ==
    /\ IdleBuf /\ IdleChan /\ IdleWire /\ IdleLog
    /\ strm = [st |-> "off"] /\ heap = [st |-> "off"] /\ aheap = [st |-> "off"]
    /\ \E capacity \in 0..1, prefer \in Prefers :
         sbuf = [st |-> "on", capacity |-> capacity, tracked |-> TRUE,
                 reference_count |-> 1, writer |-> 0, readers |-> {},
                 mutex |-> 0, prefer |-> prefer,
                 position_ |-> [t \in Threads |-> 0],
                 call |-> [t \in Threads |-> IdleCall]]

LockOnly == UNCHANGED <<bufVars, chanVars, wireVars, logVars, strm, heap, aheap>>

\* the label a call starts at
FirstLabel(op) ==
    CASE op = "read"   -> "r_lock"
      [] op = "write"  -> "w_lock"
      [] op = "rewind" -> "rw_lock"
      [] op = "append" -> "a_check"
      [] op = "expand" -> "e_rw"
      [] op = "copy"   -> "c_lock"
      [] op = "drop"   -> "d_lock"

\* copy constructor and destructor lock the data lock as well
LockWanted_copy_locks_data(label) ==
    CASE label \in {"r_lock", "rf_lock"}                 -> "shared"
      [] label \in {"w_lock", "rw_lock", "e_rw", "c_lock", "d_lock"} -> "exclusive"
      [] label \in {"e_mutex"}                           -> "mutex"
      [] OTHER                                           -> "none"

\* the lock a call asks for at a label: lock_read() in read and again in
\* reference, lock_write() in write and rewind, rwlock.lock() and then
\* mutex.lock() in expand, mutex.lock() in the copy constructor and destructor
LockWanted(label) ==
    CASE label \in {"r_lock", "rf_lock"}                 -> "shared"
      [] label \in {"w_lock", "rw_lock", "e_rw"}          -> "exclusive"
      [] label \in {"e_mutex", "c_lock", "d_lock"}        -> "mutex"
      [] OTHER                                           -> "none"

\* where the call is once it has the lock
AfterLock(label) ==
    CASE label = "r_lock"  -> "rf_lock"
      [] label = "rf_lock" -> "r_copy"
      [] label = "w_lock"  -> "w_copy"
      [] label = "rw_lock" -> "rw_set"
      [] label = "e_rw"    -> "e_mutex"
      [] label = "e_mutex" -> "e_realloc"
      [] label = "c_lock"  -> "c_inc"
      [] label = "d_lock"  -> "d_dec"

\* some other thread is blocked in rwlock.lock()
WriterWaits(b, t) ==
    \E u \in Threads \ {t} : LockWanted(b.call[u].pc) = "exclusive"

\* the lock that thread t asks for can be given to it
CanLock(b, t) ==
    LET want == LockWanted(b.call[t].pc)
    IN  CASE want = "shared"    -> /\ b.writer = 0
                                   /\ b.prefer = "writer" => ~WriterWaits(b, t)
          [] want = "exclusive" -> b.writer = 0 /\ b.readers = {}
          [] want = "mutex"     -> b.mutex = 0
          [] OTHER              -> FALSE

InCall(b, op) == Cardinality({t \in Threads : b.call[t].op = op
                                               /\ b.call[t].pc # "idle"})

\* thread t starts a call
Call(t, op, n) ==
    /\ LockOnly /\ sbuf.st = "on"
    /\ sbuf.call[t].pc = "idle"
    /\ op \in {"read", "write", "expand"} \/ n = 0
    /\ op = "expand" => n > 0
    /\ op = "append" => sbuf.position_[t] < MaxOff
    /\ op = "copy" => sbuf.reference_count + InCall(sbuf, "copy") < MaxRefs
    /\ op = "drop" => sbuf.reference_count - InCall(sbuf, "drop") > 1
    /\ sbuf' = [sbuf EXCEPT !.call[t] = [op |-> op, pc |-> FirstLabel(op),
                                         n |-> n, ret |-> "none"]]

\* lock_shared / lock of the rwlock, lock of the mutex: the call goes on when
\* the lock is given
Acquire(t) ==
    LET label == sbuf.call[t].pc
        want  == LockWanted(label)
    IN  /\ LockOnly /\ sbuf.st = "on"
        /\ CanLock(sbuf, t)
        /\ sbuf' = [sbuf EXCEPT
                      !.call[t].pc = AfterLock(label),
                      !.writer  = IF want = "exclusive" THEN t ELSE @,
                      !.readers = IF want = "shared" THEN @ \cup {t} ELSE @,
                      !.mutex   = IF want = "mutex" THEN t ELSE @]

\* read: reference has tested offset + size against the capacity and given
\* back its lock; memcpy, unlock_read, return
ReadDone(t) ==
    /\ LockOnly /\ sbuf.st = "on"
    /\ sbuf.call[t].pc = "r_copy"
    /\ sbuf' = [sbuf EXCEPT
                  !.readers = @ \ {t},
                  !.call[t].pc = "idle",
                  !.call[t].ret = IF sbuf.call[t].n + 1 > sbuf.capacity
                                  THEN "false" ELSE "true"]

\* write: the test of offset + size, memcpy, unlock_write, return; append
\* writes at position_ - step
WriteDone(t) ==
    LET c      == sbuf.call[t]
        offset == IF c.op = "append" THEN sbuf.position_[t] - 1 ELSE c.n
    IN  /\ LockOnly /\ sbuf.st = "on"
        /\ c.pc = "w_copy"
        /\ sbuf' = [sbuf EXCEPT
                      !.writer = 0,
                      !.call[t].pc = "idle",
                      !.call[t].ret = IF offset + 1 > sbuf.capacity
                                      THEN "false" ELSE "true"]

\* rewind: position_ = 0, unlock_write
RewindDone(t) ==
    /\ LockOnly /\ sbuf.st = "on"
    /\ sbuf.call[t].pc = "rw_set"
    /\ sbuf' = [sbuf EXCEPT !.writer = 0, !.position_[t] = 0,
                            !.call[t].pc = "idle"]

\* append: curr = position_ + step, and the test of curr against capacity(),
\* read without a lock
AppendCheck(t) ==
    LET curr == sbuf.position_[t] + 1
    IN  /\ LockOnly /\ sbuf.st = "on"
        /\ sbuf.call[t].pc = "a_check"
        /\ sbuf' = [sbuf EXCEPT
                      !.call[t].n = curr,
                      !.call[t].pc = IF curr >= sbuf.capacity
                                     THEN "e_rw" ELSE "a_set"]

\* append: position_ = curr and the call of write
AppendSet(t) ==
    /\ LockOnly /\ sbuf.st = "on"
    /\ sbuf.call[t].pc = "a_set"
    /\ sbuf' = [sbuf EXCEPT !.position_[t] = sbuf.call[t].n,
                            !.call[t].pc = "w_lock"]

\* expand with both locks: capacity = new_capacity, then reallocate; ok: the
\* block was reallocated and the locks are given back; else reallocate has
\* dropped the block from ptrs_ and thrown, and the two unlock calls are
\* skipped
ExpandRealloc(t, ok) ==
    LET c == sbuf.call[t]
    IN  /\ LockOnly /\ sbuf.st = "on"
        /\ c.pc = "e_realloc"
        /\ sbuf' = IF ok
                   THEN [sbuf EXCEPT
                           !.capacity = c.n, !.mutex = 0, !.writer = 0,
                           !.call[t].pc = IF c.op = "append"
                                          THEN "a_set" ELSE "idle"]
                   ELSE [sbuf EXCEPT
                           !.capacity = c.n, !.tracked = FALSE,
                           !.call[t].pc = "idle", !.call[t].ret = "threw"]

\* copy constructor: the count is not 0, ++reference_count, unlock
CopyDone(t) ==
    /\ LockOnly /\ sbuf.st = "on"
    /\ sbuf.call[t].pc = "c_inc"
    /\ sbuf' = [sbuf EXCEPT !.reference_count = @ + 1, !.mutex = 0,
                            !.call[t].pc = "idle"]

\* destructor of a handle that is not the last: --reference_count, unlock
DropDone(t) ==
    /\ LockOnly /\ sbuf.st = "on"
    /\ sbuf.call[t].pc = "d_dec"
    /\ sbuf' = [sbuf EXCEPT !.reference_count = @ - 1, !.mutex = 0,
                            !.call[t].pc = "idle"]

\* the steps of a call of thread t after its start
Step(t) ==
    \/ Acquire(t)
    \/ ReadDone(t)
    \/ WriteDone(t)
    \/ RewindDone(t)
    \/ AppendCheck(t)
    \/ AppendSet(t)
    \/ \E ok \in BOOLEAN : ExpandRealloc(t, ok)
    \/ CopyDone(t)
    \/ DropDone(t)

LockOps == {"read", "write", "rewind", "append", "expand", "copy", "drop"}

NextLock ==
    \/ \E t \in Threads, op \in LockOps, n \in Offsets : Call(t, op, n)
    \/ \E t \in Threads : Acquire(t)
    \/ \E t \in Threads : ReadDone(t)
    \/ \E t \in Threads : WriteDone(t)
    \/ \E t \in Threads : RewindDone(t)
    \/ \E t \in Threads : AppendCheck(t)
    \/ \E t \in Threads : AppendSet(t)
    \/ \E t \in Threads, ok \in BOOLEAN : ExpandRealloc(t, ok)
    \/ \E t \in Threads : CopyDone(t)
    \/ \E t \in Threads : DropDone(t)

SpecLock == InitLock /\ [][NextLock]_vars

\* the same with every thread scheduled again and again while it can step
SpecLockFair == SpecLock /\ \A t \in Threads : SF_vars(Step(t))

\* two threads that only append, reallocate succeeding
NextAppend ==
    \/ \E t \in Threads : Call(t, "append", 0)
    \/ \E t \in Threads : Acquire(t)
    \/ \E t \in Threads : WriteDone(t)
    \/ \E t \in Threads : AppendCheck(t)
    \/ \E t \in Threads : AppendSet(t)
    \/ \E t \in Threads : ExpandRealloc(t, TRUE)

SpecAppend == InitLock /\ [][NextAppend]_vars

\* C21: under fair scheduling every call on the shared buffer (read, write,
\* rewind, append, expand, copy, drop) returns in the end: no interleaving
\* deadlocks, the second lock_shared of read() with a writer waiting included.
C21_EveryCallReturns ==
    \A t \in Threads : (sbuf.call[t].pc # "idle") ~> (sbuf.call[t].pc = "idle")

\* C28: when reallocate throws in expand the buffer is left as before the
\* call: the capacity is unchanged, the data block is still tracked by the
\* allocator, and the thread holds neither the data lock nor the count mutex.
C28_FailedExpandRestores ==
    [][\A t \in Threads :
         (sbuf.call[t].pc = "e_realloc" /\ sbuf'.call[t].ret = "threw")
            => /\ sbuf'.capacity = sbuf.capacity
               /\ sbuf'.tracked
               /\ sbuf'.writer # t /\ sbuf'.mutex # t]_vars

\* C30: with two threads appending through auto-expanding streams on one
\* buffer, the capacity never decreases and every append returns true, its
\* bytes written at the position it computed.
C30_AppendsSucceed ==
    [][/\ sbuf'.capacity >= sbuf.capacity
       /\ \A t \in Threads :
            (sbuf.call[t].pc = "w_copy" /\ sbuf'.call[t].pc = "idle")
               => sbuf'.call[t].ret = "true"]_vars

\* C22: the copy constructor and the destructor take only the count mutex and
\* read / write take only the data lock: a step of a copy or drop leaves the
\* thread's hold of the data lock as it was and goes on whenever the mutex is
\* free, whoever holds the data lock; a step of a read or write leaves the
\* mutex as it was and does not wait for it. A thread comes to hold both
\* locks only in expand, by taking the mutex with the data lock already held.
C22_LocksIndependent ==
    [][\A t \in Threads :
         LET c == sbuf.call[t]
         IN  /\ (c.op \in {"copy", "drop"} /\ c.pc # "idle")
                   => /\ (sbuf'.writer = t) <=> (sbuf.writer = t)
                      /\ (t \in sbuf'.readers) <=> (t \in sbuf.readers)
             /\ c.pc \in {"c_lock", "d_lock"}
                   => (CanLock(sbuf, t) <=> sbuf.mutex = 0)
             /\ (c.op \in {"read", "write"} /\ c.pc # "idle")
                   => /\ (sbuf'.mutex = t) <=> (sbuf.mutex = t)
                      /\ CanLock(sbuf, t) <=> CanLock([sbuf EXCEPT !.mutex = 0], t)
             /\ (/\ sbuf'.mutex = t /\ sbuf'.writer = t
                 /\ ~(sbuf.mutex = t /\ sbuf.writer = t))
                   => /\ c.pc = "e_mutex" /\ c.op \in {"expand", "append"}
                      /\ sbuf.writer = t]_vars

\* C22 witness: a copy has taken the mutex and is about to increment the count
\* while another thread, inside write, holds the data lock
C22_Witness ==
    \E t, u \in Threads :
       /\ sbuf.st = "on" /\ t # u
       /\ sbuf.call[t].op = "copy" /\ sbuf.call[t].pc = "c_inc"
       /\ sbuf.call[u].op = "write" /\ sbuf.call[u].pc = "w_copy"
       /\ sbuf.mutex = t /\ sbuf.writer = u

=============================================================================
